---- MODULE Spec2Model ----
(***************************************************************************)
(* Model of the markdown -> Google Docs request compiler                   *)
(* (src/src/markdown-transformer/markdownToDocs.ts).                       *)
(*                                                                         *)
(* One compilation run is modelled: the token stream of the markdown       *)
(* parser is consumed one token per step, every step applies the handler   *)
(* that processToken dispatches to, and Finalize runs finalizeFormatting   *)
(* and assembles the returned batch.                                       *)
(*                                                                         *)
(* Text is a sequence of one-character strings, so that lengths, prefixes  *)
(* and "ends with a line break" are computed as the code computes them.    *)
(* A FormattingState field that is absent in the code (undefined) is FALSE *)
(* (or NoLink for the link) here: the code only ever stores true / a href. *)
(***************************************************************************)
EXTENDS Integers, Sequences, FiniteSets, TLC

\* ------------------------------------------------------------------------
\* Characters
\* ------------------------------------------------------------------------
NL == "\n"
TAB == "\t"
SP == " "
Whitespace == {SP, TAB, NL}

\* ------------------------------------------------------------------------
\* Program constants
\* ------------------------------------------------------------------------
CELL_CONTENT_OFFSET == 4
EMPTY_1x1_TABLE_SIZE == 6
CODE_FONT_FAMILY == "Roboto Mono"
NoLink == ""
NoTab == ""
NoStyle == ""
Undefined == -1

\* ------------------------------------------------------------------------
\* Sequence helpers
\* ------------------------------------------------------------------------
Last(s) == s[Len(s)]

Front(s) == SubSeq(s, 1, Len(s) - 1)

RECURSIVE Repeat(_, _)
Repeat(ch, n) == IF n <= 0 THEN <<>> ELSE <<ch>> \o Repeat(ch, n - 1)

RECURSIVE Flatten(_)
Flatten(ss) == IF ss = <<>> THEN <<>> ELSE Head(ss) \o Flatten(Tail(ss))

\* JavaScript Array.prototype.splice(i, 1)
RemoveAt(s, i) == SubSeq(s, 1, i - 1) \o SubSeq(s, i + 1, Len(s))

\* ------------------------------------------------------------------------
\* Requests
\* ------------------------------------------------------------------------
InsertTextRequest(index, text, tabId) ==
  [type |-> "insertText", index |-> index, text |-> text, tabId |-> tabId]

InsertTableRequest(index, tabId) ==
  [type |-> "insertTable", index |-> index, text |-> <<>>, tabId |-> tabId]

NoFormatting ==
  [bold |-> FALSE, italic |-> FALSE, strikethrough |-> FALSE, code |-> FALSE,
   link |-> NoLink]

\* ------------------------------------------------------------------------
\* Utility (getCurrentOpenListItem, lastInsertEndsWithNewline)
\* ------------------------------------------------------------------------
\* index (1-based here) of the open list item, 0 when there is none
getCurrentOpenListItem(c) ==
  IF c.openListItemStack = <<>> THEN 0 ELSE Last(c.openListItemStack)

lastInsertEndsWithNewline(c) ==
  /\ c.insertRequests # <<>>
  /\ Last(c.insertRequests).type = "insertText"
  /\ Last(c.insertRequests).text # <<>>
  /\ Last(Last(c.insertRequests).text) = NL

\* ------------------------------------------------------------------------
\* Insert helper
\* ------------------------------------------------------------------------
\* mutant: the cursor advances by one position whatever the text
insertText_unit(text, c) ==
  [c EXCEPT !.insertRequests = Append(@, InsertTextRequest(c.currentIndex, text, c.tabId)),
            !.cursorAtEmit = Append(@, c.currentIndex),
            !.currentIndex = @ + 1]

insertText(text, c) ==
  [c EXCEPT !.insertRequests = Append(@, InsertTextRequest(c.currentIndex, text, c.tabId)),
            !.cursorAtEmit = Append(@, c.currentIndex),
            !.currentIndex = @ + Len(text)]

\* ------------------------------------------------------------------------
\* Formatting stack
\* ------------------------------------------------------------------------
\* mutant: only the newest entry of the stack counts
mergeFormattingStack_newest(stack) ==
  IF stack = <<>> THEN NoFormatting ELSE Last(stack)

RECURSIVE mergeFormattingStack(_)
mergeFormattingStack(stack) ==
  IF stack = <<>> THEN NoFormatting
  ELSE LET merged == mergeFormattingStack(Front(stack))
           state == Last(stack)
       IN [bold |-> IF state.bold THEN state.bold ELSE merged.bold,
           italic |-> IF state.italic THEN state.italic ELSE merged.italic,
           strikethrough |-> IF state.strikethrough THEN state.strikethrough
                             ELSE merged.strikethrough,
           code |-> IF state.code THEN state.code ELSE merged.code,
           link |-> IF state.link # NoLink THEN state.link ELSE merged.link]

\* mutant: a link alone does not count as formatting
hasFormatting_noLink(formatting) ==
  \/ formatting.bold
  \/ formatting.italic
  \/ formatting.strikethrough
  \/ formatting.code

hasFormatting(formatting) ==
  \/ formatting.bold
  \/ formatting.italic
  \/ formatting.strikethrough
  \/ formatting.code
  \/ formatting.link # NoLink

\* does the stack entry carry the attribute `type`
HasAttr(state, type) ==
  CASE type = "bold" -> state.bold
    [] type = "italic" -> state.italic
    [] type = "strikethrough" -> state.strikethrough
    [] type = "code" -> state.code
    [] type = "link" -> state.link # NoLink

\* mutant: the newest entry is removed, whatever it carries
popFormatting_top(c, type) ==
  IF c.formattingStack = <<>> THEN c
  ELSE [c EXCEPT !.formattingStack = Front(@)]

popFormatting(c, type) ==
  LET hits == {i \in 1..Len(c.formattingStack) : HasAttr(c.formattingStack[i], type)}
  IN IF hits = {} THEN c
     ELSE LET i == CHOOSE k \in hits : \A j \in hits : j <= k
          IN [c EXCEPT !.formattingStack = RemoveAt(@, i)]

\* ------------------------------------------------------------------------
\* Heading handlers
\* ------------------------------------------------------------------------
\* token.tag is "h<level>"; level 0 stands for a tag getHeadingLevel cannot read
handleHeadingOpen(level, c) ==
  IF level # 0
  THEN [c EXCEPT !.currentHeadingLevel = level,
                 !.currentParagraphStart = c.currentIndex]
  ELSE c

HeadingStyleName(level) ==
  CASE level = 1 -> "HEADING_1"
    [] level = 2 -> "HEADING_2"
    [] level = 3 -> "HEADING_3"
    [] level = 4 -> "HEADING_4"
    [] level = 5 -> "HEADING_5"
    [] OTHER -> "HEADING_6"

\* mutant: every level-1 heading is promoted
handleHeadingClose_everyTitle(c) ==
  IF c.currentHeadingLevel # Undefined /\ c.currentHeadingLevel # 0
     /\ c.currentParagraphStart # Undefined
  THEN LET useTitle == c.firstHeadingAsTitle /\ c.currentHeadingLevel = 1
           c1 == [c EXCEPT !.titleConsumed = IF useTitle THEN TRUE ELSE @,
                           !.paragraphRanges = Append(@,
                              [startIndex |-> c.currentParagraphStart,
                               endIndex |-> c.currentIndex,
                               namedStyleType |-> IF useTitle THEN "TITLE"
                                  ELSE HeadingStyleName(c.currentHeadingLevel)])]
           c2 == insertText(<<NL>>, c1)
       IN [c2 EXCEPT !.currentHeadingLevel = Undefined,
                     !.currentParagraphStart = Undefined]
  ELSE c

\* mutant: the heading range takes the trailing line break in
handleHeadingClose_withBreak(c) ==
  IF c.currentHeadingLevel # Undefined /\ c.currentHeadingLevel # 0
     /\ c.currentParagraphStart # Undefined
  THEN LET useTitle == c.firstHeadingAsTitle /\ ~c.titleConsumed
                       /\ c.currentHeadingLevel = 1
           c1 == [c EXCEPT !.titleConsumed = IF useTitle THEN TRUE ELSE @,
                           !.paragraphRanges = Append(@,
                              [startIndex |-> c.currentParagraphStart,
                               endIndex |-> c.currentIndex + 1,
                               namedStyleType |-> IF useTitle THEN "TITLE"
                                  ELSE HeadingStyleName(c.currentHeadingLevel)])]
           c2 == insertText(<<NL>>, c1)
       IN [c2 EXCEPT !.currentHeadingLevel = Undefined,
                     !.currentParagraphStart = Undefined]
  ELSE c

handleHeadingClose(c) ==
  IF c.currentHeadingLevel # Undefined /\ c.currentHeadingLevel # 0
     /\ c.currentParagraphStart # Undefined
  THEN LET useTitle == c.firstHeadingAsTitle /\ ~c.titleConsumed
                       /\ c.currentHeadingLevel = 1
           c1 == [c EXCEPT !.titleConsumed = IF useTitle THEN TRUE ELSE @,
                           !.paragraphRanges = Append(@,
                              [startIndex |-> c.currentParagraphStart,
                               endIndex |-> c.currentIndex,
                               namedStyleType |-> IF useTitle THEN "TITLE"
                                  ELSE HeadingStyleName(c.currentHeadingLevel)])]
           c2 == insertText(<<NL>>, c1)
       IN [c2 EXCEPT !.currentHeadingLevel = Undefined,
                     !.currentParagraphStart = Undefined]
  ELSE c

\* ------------------------------------------------------------------------
\* Horizontal rule
\* ------------------------------------------------------------------------
handleHorizontalRule(c) ==
  LET c1 == IF ~lastInsertEndsWithNewline(c) THEN insertText(<<NL>>, c) ELSE c
      start == c1.currentIndex
      c2 == insertText(<<NL>>, c1)
  IN [c2 EXCEPT !.hrRanges = Append(@, [startIndex |-> start,
                                        endIndex |-> c2.currentIndex])]

\* ------------------------------------------------------------------------
\* Paragraph handlers
\* ------------------------------------------------------------------------
handleParagraphOpen(c) ==
  IF Len(c.listStack) = 0
  THEN [c EXCEPT !.currentParagraphStart = c.currentIndex]
  ELSE c

\* mutant: the spacing span ends before the terminating line break
handleParagraphClose_beforeBreak(c) ==
  LET paragraphStart == c.currentParagraphStart
      c1 == IF ~lastInsertEndsWithNewline(c) THEN insertText(<<NL>>, c) ELSE c
      cur == getCurrentOpenListItem(c1)
      paragraphEndIndex == IF lastInsertEndsWithNewline(c1)
                           THEN c1.currentIndex - 1 ELSE c1.currentIndex
      c2 == IF cur # 0 /\ paragraphEndIndex > c1.pendingListItems[cur].startIndex
            THEN [c1 EXCEPT !.pendingListItems[cur].endIndex = paragraphEndIndex]
            ELSE c1
      c3 == IF paragraphStart # Undefined /\ Len(c2.listStack) = 0
            THEN [c2 EXCEPT !.normalParagraphRanges = Append(@,
                     [startIndex |-> paragraphStart, endIndex |-> c.currentIndex])]
            ELSE c2
  IN [c3 EXCEPT !.currentParagraphStart = Undefined]

\* mutant: the line break is inserted whatever the last insertion ends with
handleParagraphClose_always(c) ==
  LET paragraphStart == c.currentParagraphStart
      c1 == insertText(<<NL>>, c)
      cur == getCurrentOpenListItem(c1)
      paragraphEndIndex == IF lastInsertEndsWithNewline(c1)
                           THEN c1.currentIndex - 1 ELSE c1.currentIndex
      c2 == IF cur # 0 /\ paragraphEndIndex > c1.pendingListItems[cur].startIndex
            THEN [c1 EXCEPT !.pendingListItems[cur].endIndex = paragraphEndIndex]
            ELSE c1
      c3 == IF paragraphStart # Undefined /\ Len(c2.listStack) = 0
            THEN [c2 EXCEPT !.normalParagraphRanges = Append(@,
                     [startIndex |-> paragraphStart, endIndex |-> c2.currentIndex])]
            ELSE c2
  IN [c3 EXCEPT !.currentParagraphStart = Undefined]

handleParagraphClose(c) ==
  LET paragraphStart == c.currentParagraphStart
      c1 == IF ~lastInsertEndsWithNewline(c) THEN insertText(<<NL>>, c) ELSE c
      cur == getCurrentOpenListItem(c1)
      paragraphEndIndex == IF lastInsertEndsWithNewline(c1)
                           THEN c1.currentIndex - 1 ELSE c1.currentIndex
      c2 == IF cur # 0 /\ paragraphEndIndex > c1.pendingListItems[cur].startIndex
            THEN [c1 EXCEPT !.pendingListItems[cur].endIndex = paragraphEndIndex]
            ELSE c1
      c3 == IF paragraphStart # Undefined /\ Len(c2.listStack) = 0
            THEN [c2 EXCEPT !.normalParagraphRanges = Append(@,
                     [startIndex |-> paragraphStart, endIndex |-> c2.currentIndex])]
            ELSE c2
  IN [c3 EXCEPT !.currentParagraphStart = Undefined]

\* ------------------------------------------------------------------------
\* List handlers
\* ------------------------------------------------------------------------
\* mutant: the level is the stack depth after the push
handleListOpen_deep(type, c) ==
  [c EXCEPT !.listStack = Append(@, [type |-> type, level |-> Len(c.listStack) + 1])]

handleListOpen(type, c) ==
  [c EXCEPT !.listStack = Append(@, [type |-> type, level |-> Len(c.listStack)])]

\* precondition: the list stack is not empty (the other case throws)
\* mutant: every item gets the bullet preset, also in an ordered list
handleListItemOpen_bulletOnly(c) ==
  LET currentList == Last(c.listStack)
      itemStart == c.currentIndex
      c1 == IF currentList.level > 0
            THEN insertText(Repeat(TAB, currentList.level), c) ELSE c
      listItem == [startIndex |-> itemStart,
                   endIndex |-> Undefined,
                   nestingLevel |-> currentList.level,
                   bulletPreset |-> "BULLET_DISC_CIRCLE_SQUARE",
                   taskPrefixProcessed |-> FALSE]
      c2 == [c1 EXCEPT !.pendingListItems = Append(@, listItem)]
  IN [c2 EXCEPT !.openListItemStack = Append(@, Len(c2.pendingListItems))]

handleListItemOpen(c) ==
  LET currentList == Last(c.listStack)
      itemStart == c.currentIndex
      c1 == IF currentList.level > 0
            THEN insertText(Repeat(TAB, currentList.level), c) ELSE c
      listItem == [startIndex |-> itemStart,
                   endIndex |-> Undefined,
                   nestingLevel |-> currentList.level,
                   bulletPreset |-> IF currentList.type = "ordered"
                                    THEN "NUMBERED_DECIMAL_ALPHA_ROMAN"
                                    ELSE "BULLET_DISC_CIRCLE_SQUARE",
                   taskPrefixProcessed |-> FALSE]
      c2 == [c1 EXCEPT !.pendingListItems = Append(@, listItem)]
  IN [c2 EXCEPT !.openListItemStack = Append(@, Len(c2.pendingListItems))]

\* mutant: the end is inferred from the cursor also when it was already set
handleListItemClose_overwrite(c) ==
  IF c.openListItemStack = <<>> THEN c
  ELSE LET openIndex == Last(c.openListItemStack)
           c1 == [c EXCEPT !.openListItemStack = Front(@)]
           listItem == c1.pendingListItems[openIndex]
           computedEndIndex == IF lastInsertEndsWithNewline(c1)
                               THEN c1.currentIndex - 1 ELSE c1.currentIndex
           c2 == IF computedEndIndex > listItem.startIndex
                 THEN [c1 EXCEPT !.pendingListItems[openIndex].endIndex =
                                    computedEndIndex]
                 ELSE c1
       IN IF ~lastInsertEndsWithNewline(c2) THEN insertText(<<NL>>, c2) ELSE c2

handleListItemClose(c) ==
  IF c.openListItemStack = <<>> THEN c
  ELSE LET openIndex == Last(c.openListItemStack)
           c1 == [c EXCEPT !.openListItemStack = Front(@)]
           listItem == c1.pendingListItems[openIndex]
           computedEndIndex == IF lastInsertEndsWithNewline(c1)
                               THEN c1.currentIndex - 1 ELSE c1.currentIndex
           c2 == IF listItem.endIndex = Undefined
                    /\ computedEndIndex > listItem.startIndex
                 THEN [c1 EXCEPT !.pendingListItems[openIndex].endIndex =
                                    computedEndIndex]
                 ELSE c1
       IN IF ~lastInsertEndsWithNewline(c2) THEN insertText(<<NL>>, c2) ELSE c2

ValidItem(item) == item.endIndex # Undefined /\ item.endIndex > item.startIndex

handleListClose(c) ==
  LET c1 == [c EXCEPT !.listStack = Front(@)]
      valid == {i \in 1..Len(c1.pendingListItems) : ValidItem(c1.pendingListItems[i])}
  IN IF Len(c1.listStack) = 0 /\ valid # {}
     THEN LET i == CHOOSE k \in valid : \A j \in valid : j <= k
              item == c1.pendingListItems[i]
          IN [c1 EXCEPT !.listSpacingRanges = Append(@,
                 [startIndex |-> item.startIndex, endIndex |-> item.endIndex])]
     ELSE c1

\* ------------------------------------------------------------------------
\* Text handling
\* ------------------------------------------------------------------------
RECURSIVE LeadingWhitespace(_)
LeadingWhitespace(text) ==
  IF text # <<>> /\ Head(text) \in Whitespace
  THEN 1 + LeadingWhitespace(Tail(text)) ELSE 0

\* length of the match of /^\[( |x|X)\]\s+/ in text, 0 when there is none
\* mutant: the pattern ends in \s instead of \s+
taskPrefixMatch_oneSpace(text) ==
  IF /\ Len(text) >= 4
     /\ text[1] = "["
     /\ text[2] \in {SP, "x", "X"}
     /\ text[3] = "]"
     /\ text[4] \in Whitespace
  THEN 4
  ELSE 0

taskPrefixMatch(text) ==
  IF /\ Len(text) >= 4
     /\ text[1] = "["
     /\ text[2] \in {SP, "x", "X"}
     /\ text[3] = "]"
     /\ text[4] \in Whitespace
  THEN 3 + LeadingWhitespace(SubSeq(text, 4, Len(text)))
  ELSE 0

\* String.prototype.trim: the text without its leading and trailing whitespace
RECURSIVE trimEnd(_)
trimEnd(text) ==
  IF text # <<>> /\ Last(text) \in Whitespace THEN trimEnd(Front(text)) ELSE text

trim(text) ==
  trimEnd(SubSeq(text, LeadingWhitespace(text) + 1, Len(text)))

\* !markdown || markdown.trim().length === 0
isBlank(markdown) == markdown = <<>> \/ Len(trim(markdown)) = 0

\* the tail of handleTextToken, from `const startIndex = context.currentIndex`
insertAndTrack(text, c) ==
  LET startIndex == c.currentIndex
      endIndex == startIndex + Len(text)
      c1 == insertText(text, c)
      currentFormatting == mergeFormattingStack(c1.formattingStack)
  IN IF hasFormatting(currentFormatting)
     THEN [c1 EXCEPT !.textRanges = Append(@,
              [startIndex |-> startIndex, endIndex |-> endIndex,
               formatting |-> currentFormatting])]
     ELSE c1

\* mutant: every text leaf of a list item is checked for the marker
handleTextToken_everyLeaf(content, c) ==
  IF content = <<>> THEN c
  ELSE LET cur == getCurrentOpenListItem(c)
       IN IF cur # 0
          THEN LET c1 == [c EXCEPT !.pendingListItems[cur].taskPrefixProcessed = TRUE]
                   m == taskPrefixMatch(content)
               IN IF m > 0
                  THEN LET c2 == [c1 EXCEPT !.pendingListItems[cur].bulletPreset =
                                               "BULLET_CHECKBOX"]
                           text == SubSeq(content, m + 1, Len(content))
                       IN IF text = <<>> THEN c2 ELSE insertAndTrack(text, c2)
                  ELSE insertAndTrack(content, c1)
          ELSE insertAndTrack(content, c)

\* mutant: the marker is stripped but the bullet kind is left as it was
handleTextToken_noCheckbox(content, c) ==
  IF content = <<>> THEN c
  ELSE LET cur == getCurrentOpenListItem(c)
       IN IF cur # 0 /\ ~c.pendingListItems[cur].taskPrefixProcessed
          THEN LET c1 == [c EXCEPT !.pendingListItems[cur].taskPrefixProcessed = TRUE]
                   m == taskPrefixMatch(content)
               IN IF m > 0
                  THEN LET c2 == c1
                           text == SubSeq(content, m + 1, Len(content))
                       IN IF text = <<>> THEN c2 ELSE insertAndTrack(text, c2)
                  ELSE insertAndTrack(content, c1)
          ELSE insertAndTrack(content, c)

handleTextToken(content, c) ==
  IF content = <<>> THEN c
  ELSE LET cur == getCurrentOpenListItem(c)
       IN IF cur # 0 /\ ~c.pendingListItems[cur].taskPrefixProcessed
          THEN LET c1 == [c EXCEPT !.pendingListItems[cur].taskPrefixProcessed = TRUE]
                   m == taskPrefixMatch(content)
               IN IF m > 0
                  THEN LET c2 == [c1 EXCEPT !.pendingListItems[cur].bulletPreset =
                                               "BULLET_CHECKBOX"]
                           text == SubSeq(content, m + 1, Len(content))
                       IN IF text = <<>> THEN c2 ELSE insertAndTrack(text, c2)
                  ELSE insertAndTrack(content, c1)
          ELSE insertAndTrack(content, c)

\* mutant: the code entry stays on the stack after the leaf
handleCodeInlineToken_keepEntry(content, c) ==
  LET c1 == [c EXCEPT !.formattingStack = Append(@, [NoFormatting EXCEPT !.code = TRUE])]
  IN handleTextToken(content, c1)

handleCodeInlineToken(content, c) ==
  LET c1 == [c EXCEPT !.formattingStack = Append(@, [NoFormatting EXCEPT !.code = TRUE])]
      c2 == handleTextToken(content, c1)
  IN popFormatting(c2, "code")

\* mutant: the cursor advances by the code text only, not by the table
handleCodeBlockToken_noTable(content, c) ==
  LET normalizedContent == IF content # <<>> /\ Last(content) = NL
                           THEN Front(content) ELSE content
      c1 == IF Len(c.insertRequests) > 0 /\ ~lastInsertEndsWithNewline(c)
            THEN insertText(<<NL>>, c) ELSE c
      tableStartIndex == c1.currentIndex
      c2 == [c1 EXCEPT !.insertRequests = Append(@,
                          InsertTableRequest(tableStartIndex, c1.tabId)),
                       !.cursorAtEmit = Append(@, c1.currentIndex)]
      cellContentIndex == tableStartIndex + CELL_CONTENT_OFFSET
      textLength == Len(normalizedContent)
      c3 == IF textLength > 0
            THEN [c2 EXCEPT !.insertRequests = Append(@,
                     InsertTextRequest(cellContentIndex, normalizedContent, c2.tabId)),
                            !.cursorAtEmit = Append(@, c2.currentIndex)]
            ELSE c2
      c4 == [c3 EXCEPT !.codeBlockRanges = Append(@,
                          [tableStartIndex |-> tableStartIndex,
                           textStartIndex |-> cellContentIndex,
                           textEndIndex |-> cellContentIndex + textLength]),
                       !.currentIndex = tableStartIndex + textLength]
  IN insertText(<<NL>>, c4)

\* mutant: the table is inserted without looking at what precedes it
handleCodeBlockToken_noBreak(content, c) ==
  LET normalizedContent == IF content # <<>> /\ Last(content) = NL
                           THEN Front(content) ELSE content
      c1 == c
      tableStartIndex == c1.currentIndex
      c2 == [c1 EXCEPT !.insertRequests = Append(@,
                          InsertTableRequest(tableStartIndex, c1.tabId)),
                       !.cursorAtEmit = Append(@, c1.currentIndex)]
      cellContentIndex == tableStartIndex + CELL_CONTENT_OFFSET
      textLength == Len(normalizedContent)
      c3 == IF textLength > 0
            THEN [c2 EXCEPT !.insertRequests = Append(@,
                     InsertTextRequest(cellContentIndex, normalizedContent, c2.tabId)),
                            !.cursorAtEmit = Append(@, c2.currentIndex)]
            ELSE c2
      c4 == [c3 EXCEPT !.codeBlockRanges = Append(@,
                          [tableStartIndex |-> tableStartIndex,
                           textStartIndex |-> cellContentIndex,
                           textEndIndex |-> cellContentIndex + textLength]),
                       !.currentIndex = tableStartIndex + EMPTY_1x1_TABLE_SIZE
                                        + textLength]
  IN insertText(<<NL>>, c4)

\* mutant: the code text goes one position before the cell content
handleCodeBlockToken_early(content, c) ==
  LET normalizedContent == IF content # <<>> /\ Last(content) = NL
                           THEN Front(content) ELSE content
      c1 == IF Len(c.insertRequests) > 0 /\ ~lastInsertEndsWithNewline(c)
            THEN insertText(<<NL>>, c) ELSE c
      tableStartIndex == c1.currentIndex
      c2 == [c1 EXCEPT !.insertRequests = Append(@,
                          InsertTableRequest(tableStartIndex, c1.tabId)),
                       !.cursorAtEmit = Append(@, c1.currentIndex)]
      cellContentIndex == tableStartIndex + CELL_CONTENT_OFFSET - 1
      textLength == Len(normalizedContent)
      c3 == IF textLength > 0
            THEN [c2 EXCEPT !.insertRequests = Append(@,
                     InsertTextRequest(cellContentIndex, normalizedContent, c2.tabId)),
                            !.cursorAtEmit = Append(@, c2.currentIndex)]
            ELSE c2
      c4 == [c3 EXCEPT !.codeBlockRanges = Append(@,
                          [tableStartIndex |-> tableStartIndex,
                           textStartIndex |-> cellContentIndex,
                           textEndIndex |-> cellContentIndex + textLength]),
                       !.currentIndex = tableStartIndex + EMPTY_1x1_TABLE_SIZE
                                        + textLength]
  IN insertText(<<NL>>, c4)

handleCodeBlockToken(content, c) ==
  LET normalizedContent == IF content # <<>> /\ Last(content) = NL
                           THEN Front(content) ELSE content
      c1 == IF Len(c.insertRequests) > 0 /\ ~lastInsertEndsWithNewline(c)
            THEN insertText(<<NL>>, c) ELSE c
      tableStartIndex == c1.currentIndex
      c2 == [c1 EXCEPT !.insertRequests = Append(@,
                          InsertTableRequest(tableStartIndex, c1.tabId)),
                       !.cursorAtEmit = Append(@, c1.currentIndex)]
      cellContentIndex == tableStartIndex + CELL_CONTENT_OFFSET
      textLength == Len(normalizedContent)
      c3 == IF textLength > 0
            THEN [c2 EXCEPT !.insertRequests = Append(@,
                     InsertTextRequest(cellContentIndex, normalizedContent, c2.tabId)),
                            !.cursorAtEmit = Append(@, c2.currentIndex)]
            ELSE c2
      c4 == [c3 EXCEPT !.codeBlockRanges = Append(@,
                          [tableStartIndex |-> tableStartIndex,
                           textStartIndex |-> cellContentIndex,
                           textEndIndex |-> cellContentIndex + textLength]),
                       !.currentIndex = tableStartIndex + EMPTY_1x1_TABLE_SIZE
                                        + textLength]
  IN insertText(<<NL>>, c4)

\* ------------------------------------------------------------------------
\* Finalization
\* ------------------------------------------------------------------------
FormatRequest ==
  [type |-> "", startIndex |-> 0, endIndex |-> Undefined, tabId |-> NoTab,
   namedStyleType |-> NoStyle, bulletPreset |-> "", fields |-> "",
   bold |-> FALSE, italic |-> FALSE, strikethrough |-> FALSE,
   fontFamily |-> "", linkUrl |-> NoLink]

\* googleDocsApiHelpers.buildUpdateTextStyleRequest: <<request>>, or <<>> (null)
\* when the style names no field
buildUpdateTextStyleRequest(startIndex, endIndex, style, tabId) ==
  IF style.bold \/ style.italic \/ style.strikethrough
     \/ style.fontFamily # "" \/ style.linkUrl # NoLink
  THEN << [FormatRequest EXCEPT !.type = "updateTextStyle",
              !.startIndex = startIndex, !.endIndex = endIndex, !.tabId = tabId,
              !.bold = style.bold, !.italic = style.italic,
              !.strikethrough = style.strikethrough,
              !.fontFamily = style.fontFamily, !.linkUrl = style.linkUrl] >>
  ELSE <<>>

\* googleDocsApiHelpers.buildUpdateParagraphStyleRequest for a named style
buildUpdateParagraphStyleRequest(startIndex, endIndex, namedStyleType, tabId) ==
  << [FormatRequest EXCEPT !.type = "updateParagraphStyle",
         !.startIndex = startIndex, !.endIndex = endIndex, !.tabId = tabId,
         !.namedStyleType = namedStyleType, !.fields = "namedStyleType"] >>

NoTextStyle ==
  [bold |-> FALSE, italic |-> FALSE, strikethrough |-> FALSE, fontFamily |-> "",
   linkUrl |-> NoLink]

\* mutant: the link goes into the operation of the character attributes
textRangeRequests_oneOp(range, tabId) ==
  buildUpdateTextStyleRequest(range.startIndex, range.endIndex,
    [NoTextStyle EXCEPT !.bold = range.formatting.bold,
                        !.italic = range.formatting.italic,
                        !.strikethrough = range.formatting.strikethrough,
                        !.fontFamily = IF range.formatting.code
                                       THEN CODE_FONT_FAMILY ELSE "",
                        !.linkUrl = range.formatting.link],
    tabId)

\* the requests finalizeFormatting emits for one Text Range
textRangeRequests(range, tabId) ==
  (IF range.formatting.bold \/ range.formatting.italic
      \/ range.formatting.strikethrough \/ range.formatting.code
   THEN buildUpdateTextStyleRequest(range.startIndex, range.endIndex,
          [NoTextStyle EXCEPT !.bold = range.formatting.bold,
                              !.italic = range.formatting.italic,
                              !.strikethrough = range.formatting.strikethrough,
                              !.fontFamily = IF range.formatting.code
                                             THEN CODE_FONT_FAMILY ELSE ""],
          tabId)
   ELSE <<>>)
  \o
  (IF range.formatting.link # NoLink
   THEN buildUpdateTextStyleRequest(range.startIndex, range.endIndex,
          [NoTextStyle EXCEPT !.linkUrl = range.formatting.link], tabId)
   ELSE <<>>)

paragraphRangeRequests(paraRange, tabId) ==
  IF paraRange.namedStyleType # NoStyle
  THEN buildUpdateParagraphStyleRequest(paraRange.startIndex, paraRange.endIndex,
                                        paraRange.namedStyleType, tabId)
  ELSE <<>>

spacingRequests(range, tabId) ==
  << [FormatRequest EXCEPT !.type = "updateParagraphStyle",
         !.startIndex = range.startIndex, !.endIndex = range.endIndex,
         !.tabId = tabId, !.fields = "spaceBelow"] >>

\* mutant: the cell style addresses the table at the insertion offset
codeBlockRequests_atT(codeBlock, tabId) ==
  (IF codeBlock.textEndIndex > codeBlock.textStartIndex
   THEN buildUpdateTextStyleRequest(codeBlock.textStartIndex, codeBlock.textEndIndex,
          [NoTextStyle EXCEPT !.fontFamily = CODE_FONT_FAMILY], tabId)
   ELSE <<>>)
  \o
  << [FormatRequest EXCEPT !.type = "updateTableCellStyle",
         !.startIndex = codeBlock.tableStartIndex, !.tabId = tabId,
         !.fields = "backgroundColor,padding,border"] >>

\* mutant: the cell is styled, the code text is not
codeBlockRequests_cellOnly(codeBlock, tabId) ==
  << [FormatRequest EXCEPT !.type = "updateTableCellStyle",
         !.startIndex = codeBlock.tableStartIndex + 1, !.tabId = tabId,
         !.fields = "backgroundColor,padding,border"] >>

\* mutant: the table location of the cell style carries no surface identifier
codeBlockRequests_noTab(codeBlock, tabId) ==
  (IF codeBlock.textEndIndex > codeBlock.textStartIndex
   THEN buildUpdateTextStyleRequest(codeBlock.textStartIndex, codeBlock.textEndIndex,
          [NoTextStyle EXCEPT !.fontFamily = CODE_FONT_FAMILY], tabId)
   ELSE <<>>)
  \o
  << [FormatRequest EXCEPT !.type = "updateTableCellStyle",
         !.startIndex = codeBlock.tableStartIndex + 1,
         !.fields = "backgroundColor,padding,border"] >>

codeBlockRequests(codeBlock, tabId) ==
  (IF codeBlock.textEndIndex > codeBlock.textStartIndex
   THEN buildUpdateTextStyleRequest(codeBlock.textStartIndex, codeBlock.textEndIndex,
          [NoTextStyle EXCEPT !.fontFamily = CODE_FONT_FAMILY], tabId)
   ELSE <<>>)
  \o
  << [FormatRequest EXCEPT !.type = "updateTableCellStyle",
         !.startIndex = codeBlock.tableStartIndex + 1, !.tabId = tabId,
         !.fields = "backgroundColor,padding,border"] >>

hrRequests(hrRange, tabId) ==
  << [FormatRequest EXCEPT !.type = "updateParagraphStyle",
         !.startIndex = hrRange.startIndex, !.endIndex = hrRange.endIndex,
         !.tabId = tabId, !.fields = "borderBottom"] >>

bulletRequests(merged, tabId) ==
  << [FormatRequest EXCEPT !.type = "createParagraphBullets",
         !.startIndex = merged.startIndex, !.endIndex = merged.endIndex,
         !.tabId = tabId, !.bulletPreset = merged.bulletPreset] >>

\* Array.prototype.sort is stable: x goes after every element that does not
\* compare greater.  sign = 1 sorts ascending by startIndex, -1 descending.
RECURSIVE InsertByStart(_, _, _)
InsertByStart(sorted, x, sign) ==
  IF sorted = <<>> THEN <<x>>
  ELSE IF sign * Head(sorted).startIndex <= sign * x.startIndex
       THEN <<Head(sorted)>> \o InsertByStart(Tail(sorted), x, sign)
       ELSE <<x>> \o sorted

RECURSIVE SortByStart(_, _)
SortByStart(s, sign) ==
  IF s = <<>> THEN <<>>
  ELSE InsertByStart(SortByStart(Front(s), sign), Last(s), sign)

validListItems(c) ==
  SortByStart(SelectSeq(c.pendingListItems, ValidItem), 1)

\* the merge loop over the sorted valid items
\* mutant: every item gets a range of its own
RECURSIVE mergeListRanges_noMerge(_)
mergeListRanges_noMerge(items) ==
  IF items = <<>> THEN <<>>
  ELSE LET merged == mergeListRanges_noMerge(Front(items))
           item == Last(items)
       IN IF /\ FALSE
             /\ merged # <<>>
             /\ Last(merged).bulletPreset = item.bulletPreset
             /\ item.startIndex <= Last(merged).endIndex + 1
          THEN [merged EXCEPT ![Len(merged)].endIndex =
                  IF item.endIndex > @ THEN item.endIndex ELSE @]
          ELSE Append(merged, [startIndex |-> item.startIndex,
                               endIndex |-> item.endIndex,
                               bulletPreset |-> item.bulletPreset])

\* mutant: items of one kind merge whatever lies between them
RECURSIVE mergeListRanges_anyGap(_)
mergeListRanges_anyGap(items) ==
  IF items = <<>> THEN <<>>
  ELSE LET merged == mergeListRanges_anyGap(Front(items))
           item == Last(items)
       IN IF /\ merged # <<>>
             /\ Last(merged).bulletPreset = item.bulletPreset
          THEN [merged EXCEPT ![Len(merged)].endIndex =
                  IF item.endIndex > @ THEN item.endIndex ELSE @]
          ELSE Append(merged, [startIndex |-> item.startIndex,
                               endIndex |-> item.endIndex,
                               bulletPreset |-> item.bulletPreset])

RECURSIVE mergeListRanges(_)
mergeListRanges(items) ==
  IF items = <<>> THEN <<>>
  ELSE LET merged == mergeListRanges(Front(items))
           item == Last(items)
       IN IF /\ merged # <<>>
             /\ Last(merged).bulletPreset = item.bulletPreset
             /\ item.startIndex <= Last(merged).endIndex + 1
          THEN [merged EXCEPT ![Len(merged)].endIndex =
                  IF item.endIndex > @ THEN item.endIndex ELSE @]
          ELSE Append(merged, [startIndex |-> item.startIndex,
                               endIndex |-> item.endIndex,
                               bulletPreset |-> item.bulletPreset])

\* mutant: the merged ranges stay in ascending start order
mergedListRanges_ascending(c) ==
  SortByStart(mergeListRanges(validListItems(c)), 1)

\* mergedListRanges.sort((a, b) => b.startIndex - a.startIndex)
mergedListRanges(c) == SortByStart(mergeListRanges(validListItems(c)), -1)

finalizeFormatting(c) ==
  [c EXCEPT !.formatRequests =
     @ \o Flatten([i \in 1..Len(c.textRanges) |->
                     textRangeRequests(c.textRanges[i], c.tabId)])
       \o Flatten([i \in 1..Len(c.paragraphRanges) |->
                     paragraphRangeRequests(c.paragraphRanges[i], c.tabId)])
       \o Flatten([i \in 1..Len(c.normalParagraphRanges) |->
                     spacingRequests(c.normalParagraphRanges[i], c.tabId)])
       \o Flatten([i \in 1..Len(c.listSpacingRanges) |->
                     spacingRequests(c.listSpacingRanges[i], c.tabId)])
       \o Flatten([i \in 1..Len(c.codeBlockRanges) |->
                     codeBlockRequests(c.codeBlockRanges[i], c.tabId)])
       \o Flatten([i \in 1..Len(c.hrRanges) |->
                     hrRequests(c.hrRanges[i], c.tabId)])
       \o Flatten([i \in 1..Len(mergedListRanges(c)) |->
                     bulletRequests(mergedListRanges(c)[i], c.tabId)])]

\* ------------------------------------------------------------------------
\* Bounds of the model and the inputs drawn from them
\* ------------------------------------------------------------------------
MaxListDepth == 2
MaxItems == 3
MaxHeadingLevel == 1
MaxInline == 2

\* the heading levels of the streams: the lowest ones and the highest
HeadingLevels == (1..MaxHeadingLevel) \cup {6}

Hrefs == {"u", ""}

TaskDone == <<"[", "x", "]", SP, "a">>
TaskOnly == <<"[", SP, "]", SP, SP>>
CodeInlineContents == {<<"c">>}
CodeBlockContents == {<<"c", NL, "d", NL>>, <<>>}

\* How many tokens of each class the token stream may still hold.
Budget(heads, paras, codes, lists, items, inlines, texts) ==
  [heads |-> heads, paras |-> paras, codes |-> codes, lists |-> lists,
   items |-> items, inlines |-> inlines, texts |-> texts]

\* One call of convertMarkdownToRequests: its arguments, and the family of
\* token streams the parser may hand it (a budget per token class and the
\* contents its text leaves may have).  The families keep the product of the
\* classes small: flat lists of many items, task lists, nested lists, lists
\* around a heading, a paragraph with inline markup, a list item and a heading
\* with inline markup, mixed blocks with code blocks and rules, several
\* headings, a code block or rule inside nested list items, a list item with
\* a paragraph after its nested list, and a run in which
\* a step of the pass or of the finalization may fail (faults).
\* The markdown of such a call is a text with visible characters; which tokens
\* the parser makes of it is what the budget and the contents describe.
SomeMarkdown == <<SP, "a", NL>>

Call(startIndex, tabId, firstHeadingAsTitle, budget, contents) ==
  [markdown |-> SomeMarkdown, startIndex |-> startIndex, tabId |-> tabId,
   firstHeadingAsTitle |-> firstHeadingAsTitle,
   budget |-> budget, contents |-> contents, faults |-> FALSE]

\* A call whose markdown is empty or whitespace only; the parser makes no
\* token of such a text.
BlankMarkdowns == {<<>>, <<SP>>, <<NL, TAB>>, <<SP, NL, SP>>}

BlankCalls ==
  { [Call(startIndex, tabId, firstHeadingAsTitle,
          Budget(0, 0, 0, 0, 0, 0, 0), {}) EXCEPT !.markdown = markdown] :
      markdown \in BlankMarkdowns, startIndex \in {1, 5},
      tabId \in {NoTab, "t.1"}, firstHeadingAsTitle \in BOOLEAN }

Plain == <<"a", "b">>

Inputs ==
  { Call(1, NoTab, FALSE, Budget(0, MaxItems, 0, 1, MaxItems, 0, MaxItems),
         {Plain}),
    Call(1, NoTab, FALSE, Budget(0, 2, 0, 1, 2, 0, 2), {Plain, TaskDone}),
    Call(5, "t.1", FALSE, Budget(0, 2, 0, MaxListDepth, MaxListDepth, 0, 2),
         {Plain, TaskDone}),
    Call(5, "t.1", TRUE, Budget(1, 2, 0, 2, 2, 0, 2), {Plain}),
    Call(1, NoTab, FALSE, Budget(0, 1, 0, 0, 0, MaxInline, 1), {Plain}),
    Call(1, NoTab, FALSE, Budget(0, 1, 0, 0, 0, 2, 2), {Plain}),
    Call(1, NoTab, TRUE, Budget(1, 1, 0, 1, 1, 1, 1), {Plain, TaskOnly, <<>>}),
    Call(5, "t.1", TRUE, Budget(1, 1, 2, 1, 1, 0, 1), {Plain}),
    Call(1, NoTab, TRUE, Budget(MaxItems, 0, 0, 0, 0, 0, 1), {Plain}),
    Call(5, "t.1", FALSE, Budget(2, 0, 0, 0, 0, 0, 1), {Plain}),
    Call(1, NoTab, FALSE, Budget(0, 1, 1, 2, 2, 0, 1), {Plain}),
    Call(1, NoTab, FALSE, Budget(0, 3, 0, 2, 3, 0, 2), {Plain}),
    [Call(1, NoTab, FALSE, Budget(0, 1, 0, 1, 1, 0, 1), {Plain})
       EXCEPT !.faults = TRUE] }
  \cup BlankCalls

\* ------------------------------------------------------------------------
\* State
\* ------------------------------------------------------------------------
VARIABLES
  input,     \* the arguments of convertMarkdownToRequests and the stream budget
  context,   \* the ConversionContext of the run
  tokens,    \* the tokens processed so far, in order
  open,      \* the constructs the token stream has opened and not yet closed
  roles,     \* history: for each insert request, what it was emitted for
  pc,        \* "pass" | "done" | "error"
  result,    \* the returned batch
  thrown,    \* the error convertMarkdownToRequests has thrown, if any
  other      \* a second call in progress whose steps interleave, if any

vars == <<input, context, tokens, open, roles, pc, result, thrown, other>>

\* what a call throws: nothing, an Error of some class, or any other value
NoError == [kind |-> "", message |-> ""]

MarkdownConversionError(message) ==
  [kind |-> "MarkdownConversionError", message |-> message]

OrphanItemMessage == "List item found outside of list context"

\* the failures a step may end with that are not conversion errors: an Error
\* with a message, and a thrown value that is no Error
Failures ==
  { [kind |-> "Error", message |-> "boom"],
    [kind |-> "Error", message |-> ""],
    [kind |-> "value", message |-> ""] }

\* the catch clause of convertMarkdownToRequests
rethrow(error) ==
  IF error.kind = "MarkdownConversionError" THEN error
  ELSE MarkdownConversionError(
         "Failed to convert markdown: "
           \o (IF error.kind = "Error" THEN error.message ELSE "Unknown error"))

\* a token; `at` is history: the cursor when processToken took the token
Token(type) ==
  [type |-> type, content |-> <<>>, level |-> 0, href |-> NoLink, at |-> 0]

BlockKinds == {"heading", "paragraph", "bullet_list", "ordered_list", "list_item"}
ListKinds == {"bullet_list", "ordered_list"}
InlineKinds == {"strong", "em", "s", "link"}

\* the token stream is at a place where a block may start
AtBlockLevel == IF open = <<>> THEN TRUE ELSE Last(open) = "list_item"

\* the token stream is inside the inline content of a heading or paragraph
InInline ==
  \E i \in 1..Len(open) :
    /\ open[i] \in {"heading", "paragraph"}
    /\ \A j \in (i + 1)..Len(open) : open[j] \in InlineKinds

ListDepth == Cardinality({i \in 1..Len(open) : open[i] \in ListKinds})

\* remove the innermost open construct of the given kind
CloseKind(kind) ==
  LET hits == {i \in 1..Len(open) : open[i] = kind}
      i == CHOOSE k \in hits : \A j \in hits : j <= k
  IN RemoveAt(open, i)

InitialContext(startIndex, tabId, firstHeadingAsTitle) ==
  [currentIndex |-> startIndex,
   insertRequests |-> <<>>,
   formatRequests |-> <<>>,
   textRanges |-> <<>>,
   formattingStack |-> <<>>,
   listStack |-> <<>>,
   paragraphRanges |-> <<>>,
   normalParagraphRanges |-> <<>>,
   listSpacingRanges |-> <<>>,
   pendingListItems |-> <<>>,
   openListItemStack |-> <<>>,
   hrRanges |-> <<>>,
   codeBlockRanges |-> <<>>,
   tabId |-> tabId,
   currentParagraphStart |-> Undefined,
   currentHeadingLevel |-> Undefined,
   titleConsumed |-> FALSE,
   firstHeadingAsTitle |-> firstHeadingAsTitle,
   cursorAtEmit |-> <<>>]

\* the state of a call that has just built its context
InitialRun(call) ==
  [input |-> call,
   context |-> InitialContext(call.startIndex, call.tabId,
                              call.firstHeadingAsTitle),
   tokens |-> <<>>, open |-> <<>>, roles |-> <<>>,
   pc |-> "pass", result |-> <<>>, thrown |-> NoError]

\* there is no second call
NoRun == [pc |-> "none"]

Init ==
  /\ input \in Inputs
  /\ context = InitialContext(input.startIndex, input.tabId,
                              input.firstHeadingAsTitle)
  /\ tokens = <<>>
  /\ open = <<>>
  /\ roles = <<>>
  /\ pc = "pass"
  /\ result = <<>>
  /\ thrown = NoError
  /\ other = NoRun

\* what the i-th insert request of c2 was emitted for, given the token
RoleOf(tok, c2, i) ==
  LET req == c2.insertRequests[i]
  IN CASE req.type = "insertTable" -> "table"
       [] tok.type \in {"text", "code_inline"} -> "leaf"
       [] tok.type \in {"softbreak", "hardbreak"} -> "break"
       [] tok.type = "list_item_open" -> "indent"
       [] /\ tok.type = "fence"
          /\ i > 1
          /\ c2.insertRequests[i - 1].type = "insertTable"
          /\ req.index = c2.insertRequests[i - 1].index + CELL_CONTENT_OFFSET
          /\ i < Len(c2.insertRequests) -> "code"
       [] OTHER -> "lineBreak"

\* one iteration of the loop of convertMarkdownToRequests: processToken(tok)
\* has taken the context to c2
Process(tok, c2, open2, budget2) ==
  /\ pc = "pass"
  /\ ~isBlank(input.markdown)
  /\ context' = c2
  /\ tokens' = Append(tokens, [tok EXCEPT !.at = context.currentIndex])
  /\ open' = open2
  /\ input' = [input EXCEPT !.budget = budget2]
  /\ roles' = roles \o [i \in 1..(Len(c2.insertRequests) - Len(context.insertRequests))
                          |-> RoleOf(tok, c2, Len(context.insertRequests) + i)]
  /\ UNCHANGED <<pc, result, thrown, other>>

b == input.budget

HeadingOpen ==
  /\ AtBlockLevel /\ b.heads > 0
  /\ \E level \in HeadingLevels :
       Process([Token("heading_open") EXCEPT !.level = level],
               handleHeadingOpen(level, context),
               Append(open, "heading"), [b EXCEPT !.heads = @ - 1])

HeadingClose ==
  /\ open # <<>> /\ Last(open) = "heading"
  /\ Process(Token("heading_close"), handleHeadingClose(context), Front(open), b)

ParagraphOpen ==
  /\ AtBlockLevel /\ b.paras > 0
  /\ Process(Token("paragraph_open"), handleParagraphOpen(context),
             Append(open, "paragraph"), [b EXCEPT !.paras = @ - 1])

ParagraphClose ==
  /\ open # <<>> /\ Last(open) = "paragraph"
  /\ Process(Token("paragraph_close"), handleParagraphClose(context), Front(open), b)

Text ==
  /\ InInline /\ b.texts > 0
  /\ \E content \in input.contents :
       Process([Token("text") EXCEPT !.content = content],
               handleTextToken(content, context), open,
               [b EXCEPT !.texts = @ - 1])

CodeInline ==
  /\ InInline /\ b.inlines > 0
  /\ \E content \in CodeInlineContents :
       Process([Token("code_inline") EXCEPT !.content = content],
               handleCodeInlineToken(content, context), open,
               [b EXCEPT !.inlines = @ - 1])

PushFormatting(state) ==
  [context EXCEPT !.formattingStack = Append(@, state)]

StrongOpen ==
  /\ InInline /\ b.inlines > 0
  /\ Process(Token("strong_open"),
             PushFormatting([NoFormatting EXCEPT !.bold = TRUE]),
             Append(open, "strong"), [b EXCEPT !.inlines = @ - 1])

StrongClose ==
  /\ \E i \in 1..Len(open) : open[i] = "strong"
  /\ Process(Token("strong_close"), popFormatting(context, "bold"),
             CloseKind("strong"), b)

EmOpen ==
  /\ InInline /\ b.inlines > 0
  /\ Process(Token("em_open"),
             PushFormatting([NoFormatting EXCEPT !.italic = TRUE]),
             Append(open, "em"), [b EXCEPT !.inlines = @ - 1])

EmClose ==
  /\ \E i \in 1..Len(open) : open[i] = "em"
  /\ Process(Token("em_close"), popFormatting(context, "italic"),
             CloseKind("em"), b)

SOpen ==
  /\ InInline /\ b.inlines > 0
  /\ Process(Token("s_open"),
             PushFormatting([NoFormatting EXCEPT !.strikethrough = TRUE]),
             Append(open, "s"), [b EXCEPT !.inlines = @ - 1])

SClose ==
  /\ \E i \in 1..Len(open) : open[i] = "s"
  /\ Process(Token("s_close"), popFormatting(context, "strikethrough"),
             CloseKind("s"), b)

LinkOpen ==
  /\ InInline /\ b.inlines > 0
  /\ \E href \in Hrefs :
       Process([Token("link_open") EXCEPT !.href = href],
               IF href # "" THEN PushFormatting([NoFormatting EXCEPT !.link = href])
               ELSE context,
               Append(open, "link"), [b EXCEPT !.inlines = @ - 1])

LinkClose ==
  /\ \E i \in 1..Len(open) : open[i] = "link"
  /\ Process(Token("link_close"), popFormatting(context, "link"),
             CloseKind("link"), b)

BulletListOpen ==
  /\ AtBlockLevel /\ b.lists > 0 /\ ListDepth < MaxListDepth
  /\ Process(Token("bullet_list_open"), handleListOpen("bullet", context),
             Append(open, "bullet_list"), [b EXCEPT !.lists = @ - 1])

OrderedListOpen ==
  /\ AtBlockLevel /\ b.lists > 0 /\ ListDepth < MaxListDepth
  /\ Process(Token("ordered_list_open"), handleListOpen("ordered", context),
             Append(open, "ordered_list"), [b EXCEPT !.lists = @ - 1])

\* bullet_list_close and ordered_list_close; a list holds at least one item
ListClose ==
  /\ open # <<>> /\ Last(open) \in ListKinds
  /\ Last(tokens).type = "list_item_close"
  /\ Process(Token(IF Last(open) = "bullet_list" THEN "bullet_list_close"
                   ELSE "ordered_list_close"),
             handleListClose(context), Front(open), b)

ListItemOpen ==
  /\ open # <<>> /\ Last(open) \in ListKinds
  /\ b.items > 0
  /\ Process(Token("list_item_open"), handleListItemOpen(context),
             Append(open, "list_item"), [b EXCEPT !.items = @ - 1])

\* mutant: the insertions made before the orphan item are returned
OrphanListItem_partial ==
  /\ pc = "pass"
  /\ ~isBlank(input.markdown)
  /\ open = <<>> /\ Len(context.listStack) = 0
  /\ b.items > 0
  /\ pc' = "done"
  /\ result' = context.insertRequests
  /\ tokens' = Append(tokens, [Token("list_item_open") EXCEPT
                                 !.at = context.currentIndex])
  /\ UNCHANGED <<input, context, open, roles, thrown, other>>

\* list_item_open while no list is active: handleListItemOpen throws and
\* convertMarkdownToRequests rethrows the MarkdownConversionError
OrphanListItem ==
  /\ pc = "pass"
  /\ ~isBlank(input.markdown)
  /\ open = <<>> /\ Len(context.listStack) = 0
  /\ b.items > 0
  /\ pc' = "error"
  /\ thrown' = rethrow(MarkdownConversionError(OrphanItemMessage))
  /\ tokens' = Append(tokens, [Token("list_item_open") EXCEPT
                                 !.at = context.currentIndex])
  /\ UNCHANGED <<input, context, open, roles, result, other>>

\* a step of the pass, or finalizeFormatting, throws something else than a
\* MarkdownConversionError; the catch clause wraps it.  What was built so
\* far stays in the context, which is dropped with the call.
UnexpectedFailure ==
  /\ pc = "pass"
  /\ ~isBlank(input.markdown)
  /\ input.faults
  /\ \E error \in Failures :
       /\ pc' = "error"
       /\ thrown' = rethrow(error)
  /\ UNCHANGED <<input, context, tokens, open, roles, result, other>>

ListItemClose ==
  /\ open # <<>> /\ Last(open) = "list_item"
  /\ Process(Token("list_item_close"), handleListItemClose(context), Front(open), b)

Softbreak ==
  /\ InInline /\ b.inlines > 0
  /\ Process(Token("softbreak"), insertText(<<SP>>, context), open,
             [b EXCEPT !.inlines = @ - 1])

Hardbreak ==
  /\ InInline /\ b.inlines > 0
  /\ Process(Token("hardbreak"), insertText(<<NL>>, context), open,
             [b EXCEPT !.inlines = @ - 1])

\* fence and code_block
CodeBlock ==
  /\ AtBlockLevel /\ b.codes > 0
  /\ \E content \in CodeBlockContents :
       Process([Token("fence") EXCEPT !.content = content],
               handleCodeBlockToken(content, context), open,
               [b EXCEPT !.codes = @ - 1])

HorizontalRule ==
  /\ AtBlockLevel /\ b.codes > 0
  /\ Process(Token("hr"), handleHorizontalRule(context), open,
             [b EXCEPT !.codes = @ - 1])

\* table and blockquote tokens, and every type processToken does not know
SkippedToken ==
  /\ AtBlockLevel /\ b.codes > 0
  /\ \E type \in {"table_open", "blockquote_open"} :
       Process(Token(type), context, open, [b EXCEPT !.codes = @ - 1])

\* mutant: a blank markdown is inserted as it is
EmptyInput_inserted ==
  /\ pc = "pass"
  /\ isBlank(input.markdown)
  /\ result' = <<InsertTextRequest(input.startIndex, input.markdown, input.tabId)>>
  /\ pc' = "done"
  /\ UNCHANGED <<input, context, tokens, open, roles, thrown, other>>

\* the early return of convertMarkdownToRequests: return []
EmptyInput ==
  /\ pc = "pass"
  /\ isBlank(input.markdown)
  /\ result' = <<>>
  /\ pc' = "done"
  /\ UNCHANGED <<input, context, tokens, open, roles, thrown, other>>

\* mutant: the style operations come first
assembleBatch_styleFirst(c) == c.formatRequests \o c.insertRequests

\* return [...context.insertRequests, ...context.formatRequests]
assembleBatch(c) == c.insertRequests \o c.formatRequests

\* the end of the token stream: finalizeFormatting and the returned batch
Finalize ==
  /\ pc = "pass"
  /\ ~isBlank(input.markdown)
  /\ open = <<>>
  /\ context' = finalizeFormatting(context)
  /\ result' = assembleBatch(context')
  /\ pc' = "done"
  /\ UNCHANGED <<input, tokens, open, roles, thrown, other>>

Next ==
  \/ HeadingOpen \/ HeadingClose
  \/ ParagraphOpen \/ ParagraphClose
  \/ Text \/ CodeInline
  \/ StrongOpen \/ StrongClose
  \/ EmOpen \/ EmClose
  \/ SOpen \/ SClose
  \/ LinkOpen \/ LinkClose
  \/ BulletListOpen \/ OrderedListOpen \/ ListClose
  \/ ListItemOpen \/ OrphanListItem \/ ListItemClose
  \/ Softbreak \/ Hardbreak
  \/ CodeBlock \/ HorizontalRule \/ SkippedToken
  \/ Finalize
  \/ EmptyInput
  \/ UnexpectedFailure

Spec == Init /\ [][Next]_vars

\* ------------------------------------------------------------------------
\* Two calls whose steps interleave
\* ------------------------------------------------------------------------
\* The pairs of calls that run together: between them they hold every kind
\* of token, a blank markdown, an orphan list item and a failing step.
PairedInputs ==
  { <<Call(1, NoTab, TRUE, Budget(1, 0, 0, 0, 0, 1, 0), {}),
      Call(5, "t.1", FALSE, Budget(0, 0, 0, 1, 1, 0, 0), {})>>,
    <<Call(1, "t.1", FALSE, Budget(0, 1, 0, 0, 0, 0, 1), {Plain}),
      Call(1, NoTab, FALSE, Budget(0, 0, 1, 0, 0, 0, 0), {})>>,
    <<[Call(1, NoTab, FALSE, Budget(0, 1, 0, 0, 0, 0, 1), {TaskDone})
         EXCEPT !.faults = TRUE],
      [Call(5, NoTab, FALSE, Budget(0, 0, 0, 0, 0, 0, 0), {})
         EXCEPT !.markdown = <<SP, NL>>]>> }

\* everything one call holds: its arguments, its context, where its loop is
RunState ==
  [input |-> input, context |-> context, tokens |-> tokens, open |-> open,
   roles |-> roles, pc |-> pc, result |-> result, thrown |-> thrown]

InitInterleaved ==
  \E pair \in PairedInputs :
    /\ input = pair[1]
    /\ context = InitialContext(input.startIndex, input.tabId,
                                input.firstHeadingAsTitle)
    /\ tokens = <<>>
    /\ open = <<>>
    /\ roles = <<>>
    /\ pc = "pass"
    /\ result = <<>>
    /\ thrown = NoError
    /\ other = InitialRun(pair[2])

\* mutant: the cursor is one counter that both calls use
Switch_sharedCursor ==
  /\ other.pc # "none"
  /\ input' = other.input
  /\ context' = [other.context EXCEPT !.currentIndex = context.currentIndex]
  /\ tokens' = other.tokens
  /\ open' = other.open
  /\ roles' = other.roles
  /\ pc' = other.pc
  /\ result' = other.result
  /\ thrown' = other.thrown
  /\ other' = RunState

\* the other call takes the next steps: each call has the context it built
\* itself (const context, a local of convertMarkdownToRequests), so which call
\* steps decides which context the handlers read and write
Switch ==
  /\ other.pc # "none"
  /\ input' = other.input
  /\ context' = other.context
  /\ tokens' = other.tokens
  /\ open' = other.open
  /\ roles' = other.roles
  /\ pc' = other.pc
  /\ result' = other.result
  /\ thrown' = other.thrown
  /\ other' = RunState

NextInterleaved == Next \/ Switch

SpecInterleaved == InitInterleaved /\ [][NextInterleaved]_vars

\* ------------------------------------------------------------------------
\* One call on its own, as a function of its tokens
\* ------------------------------------------------------------------------
\* processToken: the handler the switch statement picks for the token
processToken(token, c) ==
  CASE token.type = "heading_open" -> handleHeadingOpen(token.level, c)
    [] token.type = "heading_close" -> handleHeadingClose(c)
    [] token.type = "paragraph_open" -> handleParagraphOpen(c)
    [] token.type = "paragraph_close" -> handleParagraphClose(c)
    [] token.type = "text" -> handleTextToken(token.content, c)
    [] token.type = "code_inline" -> handleCodeInlineToken(token.content, c)
    [] token.type = "strong_open" ->
         [c EXCEPT !.formattingStack =
                     Append(@, [NoFormatting EXCEPT !.bold = TRUE])]
    [] token.type = "strong_close" -> popFormatting(c, "bold")
    [] token.type = "em_open" ->
         [c EXCEPT !.formattingStack =
                     Append(@, [NoFormatting EXCEPT !.italic = TRUE])]
    [] token.type = "em_close" -> popFormatting(c, "italic")
    [] token.type = "s_open" ->
         [c EXCEPT !.formattingStack =
                     Append(@, [NoFormatting EXCEPT !.strikethrough = TRUE])]
    [] token.type = "s_close" -> popFormatting(c, "strikethrough")
    [] token.type = "link_open" ->
         IF token.href # ""
         THEN [c EXCEPT !.formattingStack =
                          Append(@, [NoFormatting EXCEPT !.link = token.href])]
         ELSE c
    [] token.type = "link_close" -> popFormatting(c, "link")
    [] token.type = "bullet_list_open" -> handleListOpen("bullet", c)
    [] token.type = "ordered_list_open" -> handleListOpen("ordered", c)
    [] token.type \in {"bullet_list_close", "ordered_list_close"} ->
         handleListClose(c)
    [] token.type = "list_item_open" -> handleListItemOpen(c)
    [] token.type = "list_item_close" -> handleListItemClose(c)
    [] token.type = "softbreak" -> insertText(<<SP>>, c)
    [] token.type = "hardbreak" -> insertText(<<NL>>, c)
    [] token.type \in {"fence", "code_block"} ->
         handleCodeBlockToken(token.content, c)
    [] token.type = "hr" -> handleHorizontalRule(c)
    [] OTHER -> c

\* the loop of convertMarkdownToRequests over the tokens
RECURSIVE processTokens(_, _)
processTokens(toks, c) ==
  IF toks = <<>> THEN c
  ELSE processTokens(Tail(toks), processToken(Head(toks), c))

\* the batch convertMarkdownToRequests returns for a call whose markdown the
\* parser turns into the tokens toks, when no other call runs
convertMarkdownToRequests(call, toks) ==
  IF isBlank(call.markdown) THEN <<>>
  ELSE assembleBatch(finalizeFormatting(
         processTokens(toks, InitialContext(call.startIndex, call.tabId,
                                            call.firstHeadingAsTitle))))

\* ========================================================================
\* Properties
\* ========================================================================
InsertTypes == {"insertText", "insertTable"}

RECURSIVE TextLength(_)
TextLength(reqs) ==
  IF reqs = <<>> THEN 0 ELSE Len(Head(reqs).text) + TextLength(Tail(reqs))

Tables(reqs) == Cardinality({i \in 1..Len(reqs) : reqs[i].type = "insertTable"})

HasRole(role) == \E i \in 1..Len(roles) : roles[i] = role

\* C1 as stated: when the pass has ended the cursor is the start offset plus
\* the total length of the texts of the insertion operations.
C1_CursorIsStartPlusText ==
  pc = "done" =>
    context.currentIndex = input.startIndex + TextLength(context.insertRequests)

\* C1 amended: the cursor is the start offset plus the total length of the
\* inserted texts plus EMPTY_1x1_TABLE_SIZE (6) positions for every
\* insert-table operation; this holds after every token and when the pass ends.
C1_CursorAccounting ==
  context.currentIndex = input.startIndex + TextLength(context.insertRequests)
                         + 6 * Tables(context.insertRequests)

\* a finished run whose stream held a heading, a list item, a rule and a
\* code block with text
C1_Witness ==
  /\ pc = "done"
  /\ HasRole("code")
  /\ context.hrRanges # <<>>
  /\ context.pendingListItems # <<>>
  /\ context.paragraphRanges # <<>>

\* how far the cursor has moved between the emission of insertion i and the
\* next emission (or the end of the step): the length of its text; for a code
\* block 6 + the length of the code text, once the table and the code text
\* (if there is any) are both emitted
Footprint(i) ==
  CASE context.insertRequests[i].type = "insertTable" ->
         IF i < Len(roles) /\ roles[i + 1] = "code" THEN 0 ELSE 6
    [] roles[i] = "code" -> 6 + Len(context.insertRequests[i].text)
    [] OTHER -> Len(context.insertRequests[i].text)

\* C2 as stated: every insertion operation, the ones of a code block included,
\* is located at the cursor value of the moment it is emitted.
C2_EveryInsertAtCursor ==
  \A i \in 1..Len(context.insertRequests) :
    context.insertRequests[i].index = context.cursorAtEmit[i]

\* the insertions as the cursor saw them: located at the cursor, the code text
\* of a code block CELL_CONTENT_OFFSET (4) after it, the first one at the start
\* offset, each next one where the previous one left the cursor
CursorDiscipline ==
  LET reqs == context.insertRequests
      at == context.cursorAtEmit
  IN /\ Len(at) = Len(reqs) /\ Len(roles) = Len(reqs)
     /\ \A i \in 1..Len(reqs) :
          /\ reqs[i].index = at[i] + (IF roles[i] = "code" THEN 4 ELSE 0)
          /\ at[i] = IF i = 1 THEN input.startIndex
                     ELSE at[i - 1] + Footprint(i - 1)
     /\ context.currentIndex =
          IF reqs = <<>> THEN input.startIndex
          ELSE at[Len(reqs)] + Footprint(Len(reqs))

\* C2 amended: in every step the cursor stays or grows, never shrinks; every
\* insert-text and insert-table operation is located at the cursor value of the
\* moment it is emitted, except the code text of a code block, which is located
\* CELL_CONTENT_OFFSET (4) after it; the first insertion is at the start
\* offset; an insertion advances the cursor by the length of its text, and a
\* code block by EMPTY_1x1_TABLE_SIZE (6) plus the length of its code text.
C2_CursorDiscipline ==
  /\ []CursorDiscipline
  /\ [][context'.currentIndex >= context.currentIndex]_vars

\* a code block with text has been emitted after an earlier insertion, at a
\* start offset other than 1
C2_Witness ==
  /\ input.startIndex = 5
  /\ \E i \in 2..Len(roles) : roles[i] = "code" /\ i > 2
  /\ Last(tokens).type = "fence"

\* C4: no style/structure operation exists before finalization; the returned
\* batch is the insertion operations, in the order the pass emitted them,
\* followed by the style/structure operations.
BatchOrdered ==
  /\ pc # "done" => context.formatRequests = <<>> /\ result = <<>>
  /\ pc = "done" =>
       LET k == Len(context.insertRequests)
       IN /\ Len(result) = k + Len(context.formatRequests)
          /\ \A i \in 1..Len(result) :
               IF i <= k
               THEN /\ result[i] = context.insertRequests[i]
                    /\ result[i].type \in InsertTypes
               ELSE /\ result[i] = context.formatRequests[i - k]
                    /\ result[i].type \notin InsertTypes

IsPrefix(s, t) == Len(s) <= Len(t) /\ SubSeq(t, 1, Len(s)) = s

C4_BatchOrdering ==
  /\ []BatchOrdered
  /\ [][IsPrefix(context.insertRequests, context'.insertRequests)]_vars

\* a returned batch with several insertions and several style operations
C4_Witness ==
  /\ pc = "done"
  /\ Len(context.insertRequests) >= 3
  /\ Len(context.formatRequests) >= 2
  /\ HasRole("table")

\* ------------------------------------------------------------------------
\* The host document: what the insertion operations build when they are
\* applied one after another.  A position holds a character and the number
\* of the insertion that put it there.
\* ------------------------------------------------------------------------
\* insert-table at T: a line break at T, the table, row and cell openings,
\* the line break of the empty cell paragraph at T + 4, and the table end
HostTable(i) ==
  << [ch |-> NL, req |-> i], [ch |-> "table", req |-> i],
     [ch |-> "row", req |-> i], [ch |-> "cell", req |-> i],
     [ch |-> NL, req |-> i], [ch |-> "end", req |-> i] >>

HostText(text, i) == [k \in 1..Len(text) |-> [ch |-> text[k], req |-> i]]

\* the document after the first n insertions; a position outside the document
\* spoils the replay
RECURSIVE Replay(_, _, _)
Replay(reqs, n, start) ==
  IF n = 0 THEN [ok |-> TRUE, doc |-> <<>>]
  ELSE LET before == Replay(reqs, n - 1, start)
           pos == reqs[n].index - start
           cells == IF reqs[n].type = "insertTable" THEN HostTable(n)
                    ELSE HostText(reqs[n].text, n)
       IN IF ~before.ok \/ pos < 0 \/ pos > Len(before.doc)
          THEN [ok |-> FALSE, doc |-> before.doc]
          ELSE [ok |-> TRUE,
                doc |-> SubSeq(before.doc, 1, pos) \o cells
                        \o SubSeq(before.doc, pos + 1, Len(before.doc))]

Replayed == Replay(context.insertRequests, Len(context.insertRequests),
                   input.startIndex)

\* the position of the document that offset o addresses
At(doc, o) == doc[o - input.startIndex + 1]

InDoc(doc, o) == o >= input.startIndex /\ o - input.startIndex < Len(doc)

IsText(cell) == context.insertRequests[cell.req].type = "insertText"

\* the characters of the document that are not table structure
PlainText(doc) ==
  LET keep(cell) == IsText(cell)
      cells == SelectSeq(doc, keep)
  IN [k \in 1..Len(cells) |-> cells[k].ch]

\* the texts of the insertions whose role is in the set, in emission order
RECURSIVE TextsOf(_, _)
TextsOf(n, roleSet) ==
  IF n = 0 THEN <<>>
  ELSE TextsOf(n - 1, roleSet)
       \o (IF roles[n] \in roleSet THEN context.insertRequests[n].text ELSE <<>>)

\* the span [s, e) holds exactly the text of insertion i
HoldsInsertion(doc, s, e, i) ==
  /\ e - s = Len(context.insertRequests[i].text)
  /\ \A k \in 1..(e - s) :
       /\ InDoc(doc, s + k - 1)
       /\ At(doc, s + k - 1) = [ch |-> context.insertRequests[i].text[k], req |-> i]

RangesAddressTheirText(doc) ==
  /\ \A r \in 1..Len(context.textRanges) :
       LET range == context.textRanges[r]
       IN \E i \in 1..Len(roles) :
            /\ roles[i] = "leaf"
            /\ HoldsInsertion(doc, range.startIndex, range.endIndex, i)
  /\ \A r \in 1..Len(context.paragraphRanges) :
       LET range == context.paragraphRanges[r]
       IN /\ range.startIndex <= range.endIndex
          /\ \A o \in range.startIndex..(range.endIndex - 1) :
               InDoc(doc, o) /\ roles[At(doc, o).req] \in {"leaf", "break"}
          /\ InDoc(doc, range.endIndex)
          /\ At(doc, range.endIndex).ch = NL
          /\ roles[At(doc, range.endIndex).req] = "lineBreak"
  /\ \A r \in 1..Len(context.hrRanges) :
       LET range == context.hrRanges[r]
       IN /\ range.endIndex = range.startIndex + 1
          /\ InDoc(doc, range.startIndex)
          /\ At(doc, range.startIndex).ch = NL
          /\ roles[At(doc, range.startIndex).req] = "lineBreak"
  /\ \A r \in 1..Len(context.codeBlockRanges) :
       LET range == context.codeBlockRanges[r]
       IN /\ InDoc(doc, range.tableStartIndex + 1)
          /\ At(doc, range.tableStartIndex + 1).ch = "table"
          /\ At(doc, range.textStartIndex - 1).ch = "cell"
          /\ InDoc(doc, range.textEndIndex + 1)
          /\ At(doc, range.textEndIndex).ch = NL
          /\ roles[At(doc, range.textEndIndex).req] = "table"
          /\ At(doc, range.textEndIndex + 1).ch = "end"
          /\ range.textEndIndex > range.textStartIndex =>
               \E i \in 1..Len(roles) :
                 /\ roles[i] = "code"
                 /\ HoldsInsertion(doc, range.textStartIndex, range.textEndIndex, i)
  /\ \A r \in 1..Len(context.pendingListItems) :
       LET item == context.pendingListItems[r]
       IN item.endIndex # Undefined =>
            /\ item.startIndex < item.endIndex
            /\ InDoc(doc, item.startIndex)
            /\ InDoc(doc, item.endIndex)
            /\ At(doc, item.endIndex).ch = NL
            /\ IsText(At(doc, item.endIndex))

\* every insertion lands inside the document built so far, every recorded
\* range addresses the characters inserted for it, and the document is as
\* long as the cursor has advanced
ReplayFaithful ==
  LET replayed == Replayed
  IN /\ replayed.ok
     /\ Len(replayed.doc) = context.currentIndex - input.startIndex
     /\ RangesAddressTheirText(replayed.doc)

\* C3 as stated: the replay is faithful and the plain text of the document is
\* the concatenation, in token order, of the text leaves (markers removed; the
\* text of a code block leaf counted with them), the break characters and the
\* block-terminating line breaks.
C3_ReplayIsLeavesAndBreaks ==
  /\ ReplayFaithful
  /\ PlainText(Replayed.doc) =
       TextsOf(Len(roles), {"leaf", "code", "break", "lineBreak"})

\* C3 amended: the replay is faithful (every insertion lands inside the
\* document built so far and every recorded range addresses the characters
\* inserted for it), and the plain text of the document is the concatenation,
\* in emission order, of the text leaves (markers removed), the code text of
\* code blocks, the break characters, the block-terminating line breaks, and
\* also the indentation tabs inserted for nested list items.
C3_ReplayFidelity ==
  /\ ReplayFaithful
  /\ PlainText(Replayed.doc) =
       TextsOf(Len(roles), {"leaf", "break", "lineBreak", "indent", "code"})

\* a finished run with a code block, a heading and a closed list item in the
\* document
C3_Witness ==
  /\ pc = "done"
  /\ HasRole("code")
  /\ context.paragraphRanges # <<>>
  /\ \E r \in 1..Len(context.pendingListItems) :
       context.pendingListItems[r].endIndex # Undefined

\* ------------------------------------------------------------------------
\* Token streams of a given shape
\* ------------------------------------------------------------------------
\* text that starts with a task-list marker followed by whitespace
IsTaskText(text) ==
  /\ Len(text) >= 4
  /\ text[1] = "[" /\ text[2] \in {SP, "x", "X"} /\ text[3] = "]"
  /\ text[4] \in Whitespace

RECURSIVE DropWhitespace(_)
DropWhitespace(text) ==
  IF text # <<>> /\ Head(text) \in Whitespace THEN DropWhitespace(Tail(text))
  ELSE text

\* the text without its task-list marker and the whitespace after it
Body(text) ==
  IF IsTaskText(text) THEN DropWhitespace(SubSeq(text, 4, Len(text))) ELSE text

\* the whole stream is one list of n items, each item one paragraph holding
\* one text leaf
IsFlatList(n) ==
  /\ n >= 1
  /\ Len(tokens) = 5 * n + 2
  /\ \/ tokens[1].type = "bullet_list_open"
        /\ tokens[Len(tokens)].type = "bullet_list_close"
     \/ tokens[1].type = "ordered_list_open"
        /\ tokens[Len(tokens)].type = "ordered_list_close"
  /\ \A i \in 0..(n - 1) :
       /\ tokens[5 * i + 2].type = "list_item_open"
       /\ tokens[5 * i + 3].type = "paragraph_open"
       /\ tokens[5 * i + 4].type = "text"
       /\ tokens[5 * i + 5].type = "paragraph_close"
       /\ tokens[5 * i + 6].type = "list_item_close"

ItemText(i) == tokens[5 * i - 1].content

ListPreset == IF tokens[1].type = "ordered_list_open"
              THEN "NUMBERED_DECIMAL_ALPHA_ROMAN" ELSE "BULLET_DISC_CIRCLE_SQUARE"

IsBullet(req) == req.type = "createParagraphBullets"

Bullets == SelectSeq(result, IsBullet)

\* a flat list of n non-empty items that are all task items or all plain
IsUniformFlatList(n) ==
  /\ IsFlatList(n)
  /\ \A i \in 1..n : Body(ItemText(i)) # <<>>
  /\ \A i, j \in 1..n : IsTaskText(ItemText(i)) = IsTaskText(ItemText(j))

IsPlainFlatList(n) ==
  /\ IsFlatList(n)
  /\ \A i \in 1..n : ItemText(i) # <<>> /\ ~IsTaskText(ItemText(i))

IsTaskFlatList(n) ==
  /\ IsFlatList(n)
  /\ \A i \in 1..n : IsTaskText(ItemText(i)) /\ Body(ItemText(i)) # <<>>

RECURSIVE LeafSeen(_, _)
LeafSeen(i, depth) ==
  IF i = 0 THEN FALSE
  ELSE CASE tokens[i].type = "list_item_close" -> LeafSeen(i - 1, depth + 1)
         [] tokens[i].type = "list_item_open" ->
              IF depth = 0 THEN FALSE ELSE LeafSeen(i - 1, depth - 1)
         [] tokens[i].type \in {"text", "code_inline"} ->
              (depth = 0 /\ tokens[i].content # <<>>) \/ LeafSeen(i - 1, depth)
         [] OTHER -> LeafSeen(i - 1, depth)

InsideListItem == \E i \in 1..Len(open) : open[i] = "list_item"

InnermostListKind ==
  LET lists == {i \in 1..Len(open) : open[i] \in ListKinds}
  IN open[CHOOSE k \in lists : \A j \in lists : j <= k]

\* the insertions the step has emitted
Emitted ==
  SubSeq(context'.insertRequests, Len(context.insertRequests) + 1,
         Len(context'.insertRequests))

\* the step processes a text leaf that is the first leaf of the innermost open
\* list item and starts with a task-list marker followed by whitespace
TaskLeafStep ==
  /\ Len(tokens') = Len(tokens) + 1
  /\ Last(tokens').type = "text"
  /\ IsTaskText(Last(tokens').content)
  /\ InsideListItem
  /\ ~LeafSeen(Len(tokens), 0)

\* C8: when the first text leaf of a list item starts with a task-list marker
\* followed by whitespace, the marker and that whitespace are in no insertion,
\* the cursor advances by the length of the remaining text only, and the item's
\* bullet kind becomes checkbox, whatever the kind of the enclosing list.
C8_TaskMarkerStripped ==
  [][TaskLeafStep =>
       LET rest == Body(Last(tokens').content)
           item == Last(context.openListItemStack)
       IN /\ Emitted = IF rest = <<>> THEN <<>>
                       ELSE <<InsertTextRequest(context.currentIndex, rest,
                                                context.tabId)>>
          /\ context'.currentIndex = context.currentIndex + Len(rest)
          /\ context'.pendingListItems[item].bulletPreset = "BULLET_CHECKBOX"
          /\ context'.pendingListItems[item].taskPrefixProcessed]_vars

\* the item of an ordered list has just had its marker stripped and is a
\* checkbox item
C8_Witness ==
  /\ tokens # <<>>
  /\ Last(tokens).type = "text"
  /\ IsTaskText(Last(tokens).content)
  /\ InsideListItem
  /\ InnermostListKind = "ordered_list"
  /\ context.pendingListItems[Last(context.openListItemStack)].bulletPreset
       = "BULLET_CHECKBOX"
  /\ context.currentIndex = input.startIndex + 1

\* the marker was followed by whitespace only: nothing was inserted
C8_WitnessMarkerOnly ==
  /\ tokens # <<>>
  /\ Last(tokens).type = "text"
  /\ Last(tokens).content = TaskOnly
  /\ InsideListItem
  /\ context.insertRequests = <<>>

ListOpens == {"bullet_list_open", "ordered_list_open"}
ListCloses == {"bullet_list_close", "ordered_list_close"}

CountTypes(n, types) == Cardinality({j \in 1..n : tokens[j].type \in types})

\* token i opens a heading outside every list, after a list has closed
HeadingAfterList(i) ==
  /\ tokens[i].type = "heading_open"
  /\ CountTypes(i - 1, ListCloses) >= 1
  /\ CountTypes(i - 1, ListOpens) = CountTypes(i - 1, ListCloses)

\* the offset where the heading that token i opens starts: headings close in
\* the order they open, each with one Paragraph Range
HeadingStart(i) ==
  context.paragraphRanges[CountTypes(i, {"heading_open"})].startIndex

\* C9: no bullet-creation range [s, e) contains the start offset of a heading
\* that opens after a list has closed.
C9_NoBleedIntoHeading ==
  pc = "done" =>
    \A i \in 1..Len(tokens) :
      HeadingAfterList(i) =>
        \A k \in 1..Len(Bullets) :
          ~(Bullets[k].startIndex <= HeadingStart(i)
            /\ HeadingStart(i) < Bullets[k].endIndex)

\* a nested list of two kinds, then a heading
C9_Witness ==
  /\ pc = "done"
  /\ \E i \in 1..Len(tokens) : HeadingAfterList(i)
  /\ Len(Bullets) = 2
  /\ Bullets[1].bulletPreset # Bullets[2].bulletPreset
  /\ \E r \in 1..Len(context.pendingListItems) :
       context.pendingListItems[r].nestingLevel = 1

\* a list, a heading, and a list of the same kind after it
C9_WitnessBetween ==
  /\ pc = "done"
  /\ \E i \in 1..Len(tokens) :
       /\ HeadingAfterList(i)
       /\ \E k \in 1..Len(Bullets) : Bullets[k].startIndex > HeadingStart(i)
  /\ Len(Bullets) = 2
  /\ Bullets[1].bulletPreset = Bullets[2].bulletPreset

\* the step processes a list-item-open token inside a list
ItemOpenStep ==
  /\ Len(tokens') = Len(tokens) + 1
  /\ Last(tokens').type = "list_item_open"
  /\ pc' = "pass"

\* C10: when a list item opens while the list stack has depth d, d - 1 tabs
\* are inserted as one insertion located at the item's recorded start offset
\* (none when d = 1), and the recorded nesting level of the item is d - 1.
C10_NestedIndentation ==
  [][ItemOpenStep =>
       LET d == ListDepth
           item == Last(context'.pendingListItems)
       IN /\ d = Len(context.listStack)
          /\ Len(context'.pendingListItems) = Len(context.pendingListItems) + 1
          /\ item.startIndex = context.currentIndex
          /\ item.nestingLevel = d - 1
          /\ Emitted = IF d > 1
                       THEN <<InsertTextRequest(item.startIndex,
                                                Repeat(TAB, d - 1), context.tabId)>>
                       ELSE <<>>
          /\ context'.currentIndex = context.currentIndex + (d - 1)]_vars

\* an item of a nested list has just opened and its tab is the last insertion
C10_Witness ==
  /\ tokens # <<>>
  /\ Last(tokens).type = "list_item_open"
  /\ pc = "pass"
  /\ ListDepth = 2
  /\ Last(context.pendingListItems).nestingLevel = 1
  /\ Last(context.insertRequests).text = <<TAB>>
  /\ Last(context.insertRequests).index = Last(context.pendingListItems).startIndex

\* ------------------------------------------------------------------------
\* Blank input, surface identifier
\* ------------------------------------------------------------------------
\* the text holds nothing but whitespace characters
IsBlankText(text) == \A k \in 1..Len(text) : text[k] \in Whitespace

\* C11: a call whose markdown is empty or whitespace only processes no token
\* and returns an empty batch, no insertion and no style operation in it,
\* whatever the start offset, the surface identifier and the options.
C11_BlankInputEmptyBatch ==
  IsBlankText(input.markdown) =>
    /\ tokens = <<>>
    /\ pc \in {"pass", "done"}
    /\ result = <<>>
    /\ context.insertRequests = <<>>
    /\ context.formatRequests = <<>>

\* a call with whitespace-only markdown, a surface identifier, a start offset
\* other than 1 and title promotion has returned
C11_Witness ==
  /\ pc = "done"
  /\ input.markdown = <<SP, NL, SP>>
  /\ input.startIndex = 5
  /\ input.tabId = "t.1"
  /\ input.firstHeadingAsTitle

OperationTypes ==
  {"insertText", "insertTable", "updateTextStyle", "updateParagraphStyle",
   "createParagraphBullets", "updateTableCellStyle"}

HasType(reqs, type) == \E i \in 1..Len(reqs) : reqs[i].type = type

\* every operation of the sequence carries the identifier of the call (NoTab
\* stands for an operation that carries none)
CarryTab(reqs) ==
  \A i \in 1..Len(reqs) :
    /\ reqs[i].type \in OperationTypes
    /\ reqs[i].tabId = input.tabId

\* C12: when a surface (tab) identifier is supplied, every insertion the pass
\* emits and every operation of the returned batch carries exactly that
\* identifier; when none is supplied no operation carries one.
C12_TabIdPropagation ==
  /\ CarryTab(context.insertRequests)
  /\ CarryTab(context.formatRequests)
  /\ CarryTab(result)

\* a returned batch with a surface identifier that holds an operation of
\* every kind
C12_Witness ==
  /\ pc = "done"
  /\ input.tabId = "t.1"
  /\ \A type \in OperationTypes : HasType(result, type)

\* a returned batch without surface identifier that holds style operations
C12_WitnessNoTab ==
  /\ pc = "done"
  /\ input.tabId = NoTab
  /\ HasType(result, "updateTextStyle")
  /\ HasType(result, "createParagraphBullets")

\* ------------------------------------------------------------------------
\* Text Ranges
\* ------------------------------------------------------------------------
\* the step processes a text or inline-code leaf
LeafStep ==
  /\ Len(tokens') = Len(tokens) + 1
  /\ Last(tokens').type \in {"text", "code_inline"}

\* some entry of the stack carries an attribute or a link
Active(stack) ==
  \E i \in 1..Len(stack) :
    \/ stack[i].bold \/ stack[i].italic \/ stack[i].strikethrough
    \/ stack[i].code \/ stack[i].link # NoLink

\* the formatting stack at the moment the leaf of the step is inserted: an
\* inline-code leaf is inserted with its code entry on the stack
StackAtInsertion ==
  IF Last(tokens').type = "code_inline"
  THEN Append(context.formattingStack, [NoFormatting EXCEPT !.code = TRUE])
  ELSE context.formattingStack

IsTextStyle(req) == req.type = "updateTextStyle"

TextStyles == SelectSeq(result, IsTextStyle)

WellFormedTextRanges ==
  /\ \A r \in 1..Len(context.textRanges) :
       LET range == context.textRanges[r]
       IN /\ range.startIndex < range.endIndex
          /\ \/ range.formatting.bold \/ range.formatting.italic
             \/ range.formatting.strikethrough \/ range.formatting.code
             \/ range.formatting.link # NoLink
          /\ \E i \in 1..Len(roles) :
               /\ roles[i] = "leaf"
               /\ context.insertRequests[i].index = range.startIndex
               /\ Len(context.insertRequests[i].text)
                    = range.endIndex - range.startIndex
  /\ pc = "done" =>
       \A k \in 1..Len(TextStyles) :
         \/ \E r \in 1..Len(context.textRanges) :
              /\ context.textRanges[r].startIndex = TextStyles[k].startIndex
              /\ context.textRanges[r].endIndex = TextStyles[k].endIndex
         \/ \E r \in 1..Len(context.codeBlockRanges) :
              /\ context.codeBlockRanges[r].textStartIndex = TextStyles[k].startIndex
              /\ context.codeBlockRanges[r].textEndIndex = TextStyles[k].endIndex

\* C13: a step records a Text Range if and only if it inserts a text or
\* inline-code leaf while the formatting stack holds an attribute (bold,
\* italic, strikethrough, code) or a link, and the range then covers exactly
\* the inserted span; every recorded Text Range has start < end and at least
\* one attribute or a link; every text-style operation of the batch is over
\* the span of a Text Range or of the code text of a code block, so text
\* inserted with no active attribute gets no text-style operation.
C13_TextRangeWellFormed ==
  /\ []WellFormedTextRanges
  /\ [][IF LeafStep /\ Emitted # <<>> /\ Active(StackAtInsertion)
        THEN /\ Len(Emitted) = 1
             /\ context'.textRanges = Append(context.textRanges,
                   [startIndex |-> Emitted[1].index,
                    endIndex |-> Emitted[1].index + Len(Emitted[1].text),
                    formatting |-> mergeFormattingStack(StackAtInsertion)])
             /\ Emitted[1].index = context.currentIndex
             /\ context'.currentIndex = Emitted[1].index + Len(Emitted[1].text)
        ELSE context'.textRanges = context.textRanges]_vars

\* a text leaf has just been inserted inside a link and nothing else, and its
\* Text Range carries the link only
C13_Witness ==
  /\ tokens # <<>>
  /\ Last(tokens).type = "text"
  /\ context.formattingStack = <<[NoFormatting EXCEPT !.link = "u"]>>
  /\ context.textRanges # <<>>
  /\ Last(context.textRanges).formatting = [NoFormatting EXCEPT !.link = "u"]
  /\ Last(context.textRanges).endIndex = context.currentIndex
  /\ Last(context.textRanges).startIndex = context.currentIndex - Len(Plain)

\* a text leaf has just been inserted with an empty formatting stack, after a
\* styled one, and no Text Range was recorded for it
C13_WitnessPlain ==
  /\ tokens # <<>>
  /\ Last(tokens).type = "text"
  /\ Last(tokens).content # <<>>
  /\ context.formattingStack = <<>>
  /\ Len(context.textRanges) = 1
  /\ Last(context.textRanges).endIndex < context.currentIndex

\* ------------------------------------------------------------------------
\* Styled spans
\* ------------------------------------------------------------------------
\* the stack flattened oldest to newest: an attribute is set when some entry
\* sets it, the link is the one of the newest entry that has one
Flattened(stack) ==
  LET links == {i \in 1..Len(stack) : stack[i].link # NoLink}
  IN [bold |-> \E i \in 1..Len(stack) : stack[i].bold,
      italic |-> \E i \in 1..Len(stack) : stack[i].italic,
      strikethrough |-> \E i \in 1..Len(stack) : stack[i].strikethrough,
      code |-> \E i \in 1..Len(stack) : stack[i].code,
      link |-> IF links = {} THEN NoLink
               ELSE stack[CHOOSE k \in links : \A j \in links : j <= k].link]

\* the text-style operations of the batch over the span [s, e)
StylesOver(s, e) ==
  LET over(req) == req.startIndex = s /\ req.endIndex = e
  IN SelectSeq(TextStyles, over)

\* the text-style operations over the span of a Text Range carry, between
\* them, exactly the attributes of the range
StylesCarry(range) ==
  LET ops == StylesOver(range.startIndex, range.endIndex)
      f == range.formatting
      any(attr(_)) == \E k \in 1..Len(ops) : attr(ops[k])
      isBold(op) == op.bold
      isItalic(op) == op.italic
      isStrike(op) == op.strikethrough
      isMono(op) == op.fontFamily = CODE_FONT_FAMILY
  IN /\ ops # <<>>
     /\ any(isBold) = f.bold
     /\ any(isItalic) = f.italic
     /\ any(isStrike) = f.strikethrough
     /\ any(isMono) = f.code
     /\ {ops[k].linkUrl : k \in 1..Len(ops)} \ {NoLink}
          = IF f.link = NoLink THEN {} ELSE {f.link}
     /\ f.link = NoLink => Len(ops) = 1

\* the whole stream is one paragraph that holds one bold span
IsBoldParagraph ==
  /\ Len(tokens) = 5
  /\ tokens[1].type = "paragraph_open"
  /\ tokens[2].type = "strong_open"
  /\ tokens[3].type = "text" /\ tokens[3].content # <<>>
  /\ tokens[4].type = "strong_close"
  /\ tokens[5].type = "paragraph_close"

StyledSpans ==
  pc = "done" =>
    /\ \A r \in 1..Len(context.textRanges) : StylesCarry(context.textRanges[r])
    /\ IsBoldParagraph =>
         LET x == tokens[3].content
         IN /\ {i \in 1..Len(result) : result[i].type = "insertText"
                                        /\ result[i].text = x} = {1}
            /\ result[1].index = input.startIndex
            /\ Len(TextStyles) = 1
            /\ TextStyles[1].bold
            /\ ~TextStyles[1].italic /\ ~TextStyles[1].strikethrough
            /\ TextStyles[1].fontFamily = "" /\ TextStyles[1].linkUrl = NoLink
            /\ TextStyles[1].startIndex = input.startIndex
            /\ TextStyles[1].endIndex = input.startIndex + Len(x)

\* C14: a paragraph that is one bold span x yields exactly one insertion with
\* text x and exactly one text-style operation, with bold and nothing else,
\* over exactly the span of x; in general the Text Range recorded for an
\* inserted span holds the formatting stack of the moment of insertion,
\* flattened oldest to newest, and the text-style operations over the span
\* carry exactly these attributes, in one operation when there is no link
\* (text inside strong and emphasis: one operation, bold and italic).
C14_StyledSpan ==
  /\ []StyledSpans
  /\ [][LeafStep /\ Emitted # <<>> /\ Active(StackAtInsertion) =>
          /\ Len(context'.textRanges) = Len(context.textRanges) + 1
          /\ Last(context'.textRanges).formatting = Flattened(StackAtInsertion)]_vars

\* a returned batch for text inside both strong and emphasis: one text-style
\* operation, bold and italic
C14_Witness ==
  /\ pc = "done"
  /\ \E i \in 3..Len(tokens) :
       /\ tokens[i].type = "text"
       /\ {tokens[i - 1].type, tokens[i - 2].type} = {"strong_open", "em_open"}
  /\ Len(TextStyles) = 1
  /\ TextStyles[1].bold /\ TextStyles[1].italic

\* a returned batch for a paragraph that is one bold span
C14_WitnessBold == pc = "done" /\ IsBoldParagraph

\* ------------------------------------------------------------------------
\* Headings
\* ------------------------------------------------------------------------
TokensOfType(type) == {i \in 1..Len(tokens) : tokens[i].type = type}

\* the index of the k-th token of the type
RECURSIVE NthOfType(_, _, _)
NthOfType(type, k, from) ==
  IF tokens[from].type = type
  THEN IF k = 1 THEN from ELSE NthOfType(type, k - 1, from + 1)
  ELSE NthOfType(type, k, from + 1)

HeadingName(n) == "HEADING_" \o ToString(n)

IsNamedStyle(req) ==
  req.type = "updateParagraphStyle" /\ req.namedStyleType # NoStyle

NamedStyles == SelectSeq(result, IsNamedStyle)

\* the k-th closed heading has the k-th Paragraph Range: from the cursor at
\* its open token to the cursor at its close token, named after its level
HeadingRanges ==
  /\ Len(context.paragraphRanges) = Cardinality(TokensOfType("heading_close"))
  /\ \A k \in 1..Len(context.paragraphRanges) :
       LET o == tokens[NthOfType("heading_open", k, 1)]
           c == tokens[NthOfType("heading_close", k, 1)]
           range == context.paragraphRanges[k]
       IN /\ o.level \in 1..6
          /\ range.startIndex = o.at
          /\ range.endIndex = c.at
          /\ range.startIndex <= range.endIndex
          /\ \/ range.namedStyleType = HeadingName(o.level)
             \/ /\ range.namedStyleType = "TITLE"
                /\ o.level = 1 /\ input.firstHeadingAsTitle
  /\ pc = "done" =>
       /\ Len(NamedStyles) = Len(context.paragraphRanges)
       /\ \A k \in 1..Len(NamedStyles) :
            /\ NamedStyles[k].startIndex = context.paragraphRanges[k].startIndex
            /\ NamedStyles[k].endIndex = context.paragraphRanges[k].endIndex
            /\ NamedStyles[k].namedStyleType
                 = context.paragraphRanges[k].namedStyleType

HeadingCloseStep ==
  /\ Len(tokens') = Len(tokens) + 1
  /\ Last(tokens').type = "heading_close"

\* C15: every heading open/close pair of level n yields exactly one
\* paragraph-style operation with a named style, HEADING_n (or TITLE for a
\* promoted level-1 heading), whose range runs from the cursor at heading open
\* to the cursor at heading close, and the heading close inserts exactly one
\* line break, at the end of that range.
C15_HeadingStyling ==
  /\ []HeadingRanges
  /\ [][HeadingCloseStep =>
          /\ Emitted = <<InsertTextRequest(context.currentIndex, <<NL>>,
                                           context.tabId)>>
          /\ context'.currentIndex = context.currentIndex + 1
          /\ Last(context'.paragraphRanges).endIndex = context.currentIndex]_vars

\* a returned batch with a level-6 heading that holds text and does not start
\* at the start offset
C15_Witness ==
  /\ pc = "done"
  /\ \E k \in 1..Len(NamedStyles) :
       /\ NamedStyles[k].namedStyleType = "HEADING_6"
       /\ NamedStyles[k].startIndex > input.startIndex
       /\ NamedStyles[k].endIndex > NamedStyles[k].startIndex

\* the level of the k-th closed heading
HeadingLevel(k) == tokens[NthOfType("heading_open", k, 1)].level

\* C16: with promotion requested the first level-1 heading closed in the run,
\* and no other heading, has the TITLE style; every later level-1 heading and
\* every heading of another level has HEADING_n; without promotion no heading
\* has TITLE.  So a run holds at most one TITLE Paragraph Range, and the
\* promotion is marked as consumed exactly when there is one.
C16_TitleOnce ==
  /\ Len(context.paragraphRanges) = Cardinality(TokensOfType("heading_close"))
  /\ \A k \in 1..Len(context.paragraphRanges) :
       context.paragraphRanges[k].namedStyleType =
         IF /\ input.firstHeadingAsTitle
            /\ HeadingLevel(k) = 1
            /\ \A j \in 1..(k - 1) : HeadingLevel(j) # 1
         THEN "TITLE"
         ELSE HeadingName(HeadingLevel(k))
  /\ Cardinality({k \in 1..Len(context.paragraphRanges) :
                    context.paragraphRanges[k].namedStyleType = "TITLE"}) <= 1
  /\ context.titleConsumed =
       \E k \in 1..Len(context.paragraphRanges) :
         context.paragraphRanges[k].namedStyleType = "TITLE"
  /\ pc = "done" =>
       Cardinality({k \in 1..Len(NamedStyles) :
                     NamedStyles[k].namedStyleType = "TITLE"})
         = IF context.titleConsumed THEN 1 ELSE 0

\* a returned batch for a level-6 heading and two level-1 headings, with
\* promotion: the second heading is the title, the third is HEADING_1
C16_Witness ==
  /\ pc = "done"
  /\ input.firstHeadingAsTitle
  /\ Len(NamedStyles) = 3
  /\ NamedStyles[1].namedStyleType = "HEADING_6"
  /\ NamedStyles[2].namedStyleType = "TITLE"
  /\ NamedStyles[3].namedStyleType = "HEADING_1"

\* a returned batch with a level-1 heading and no promotion
C16_WitnessNoPromotion ==
  /\ pc = "done"
  /\ ~input.firstHeadingAsTitle
  /\ \E k \in 1..Len(NamedStyles) : NamedStyles[k].namedStyleType = "HEADING_1"

\* ------------------------------------------------------------------------
\* Finalization of Text Ranges
\* ------------------------------------------------------------------------
\* a text-style operation that sets character attributes and no link
IsCharacterStyle(op) ==
  /\ op.linkUrl = NoLink
  /\ op.bold \/ op.italic \/ op.strikethrough \/ op.fontFamily # ""

\* a text-style operation that sets a link and nothing else
IsLinkStyle(op) ==
  /\ op.linkUrl # NoLink
  /\ ~op.bold /\ ~op.italic /\ ~op.strikethrough /\ op.fontFamily = ""

CharacterStylesOver(range) ==
  SelectSeq(StylesOver(range.startIndex, range.endIndex), IsCharacterStyle)

LinkStylesOver(range) ==
  SelectSeq(StylesOver(range.startIndex, range.endIndex), IsLinkStyle)

\* where the span inserted for token i ends: the cursor at the next token
SpanEnd(i) == IF i < Len(tokens) THEN tokens[i + 1].at ELSE context.currentIndex

\* every inline-code leaf that inserted text has a monospace style operation
\* over its span
InlineCodeIsMonospace ==
  \A i \in TokensOfType("code_inline") :
    SpanEnd(i) > tokens[i].at =>
      \E k \in 1..Len(TextStyles) :
        /\ TextStyles[k].startIndex = tokens[i].at
        /\ TextStyles[k].endIndex = SpanEnd(i)
        /\ TextStyles[k].fontFamily = CODE_FONT_FAMILY

\* C17 as stated: every Text Range has one character-attribute style
\* operation over its span, and every Text Range with a link has, separately,
\* one link-style operation over the same span with the link's href.
C17_CharacterStylePerRange ==
  pc = "done" =>
    /\ \A r \in 1..Len(context.textRanges) :
         LET range == context.textRanges[r]
         IN /\ Len(CharacterStylesOver(range)) = 1
            /\ range.formatting.link # NoLink =>
                 /\ Len(LinkStylesOver(range)) = 1
                 /\ LinkStylesOver(range)[1].linkUrl = range.formatting.link
    /\ InlineCodeIsMonospace

\* C17 amended: every Text Range with at least one of bold, italic,
\* strikethrough and code has exactly one character-attribute style operation
\* over exactly its span, and a Text Range with none of them (a link only) has
\* no such operation; every Text Range with a link has, separately, exactly
\* one link-style operation over the same span whose URL is the link's href,
\* and a Text Range without link has none; the span of an inline-code leaf
\* has a style operation with the monospace font family.
C17_TextRangeFinalization ==
  pc = "done" =>
    /\ \A r \in 1..Len(context.textRanges) :
         LET range == context.textRanges[r]
             f == range.formatting
             chars == CharacterStylesOver(range)
             links == LinkStylesOver(range)
         IN /\ Len(chars) = IF f.bold \/ f.italic \/ f.strikethrough \/ f.code
                             THEN 1 ELSE 0
            /\ Len(links) = IF f.link # NoLink THEN 1 ELSE 0
            /\ Len(StylesOver(range.startIndex, range.endIndex))
                 = Len(chars) + Len(links)
            /\ links # <<>> => links[1].linkUrl = f.link
            /\ chars # <<>> =>
                 /\ chars[1].bold = f.bold
                 /\ chars[1].italic = f.italic
                 /\ chars[1].strikethrough = f.strikethrough
                 /\ chars[1].fontFamily = IF f.code THEN CODE_FONT_FAMILY ELSE ""
    /\ InlineCodeIsMonospace

\* a returned batch with a span that is bold and a link: two operations over
\* it
C17_Witness ==
  /\ pc = "done"
  /\ \E r \in 1..Len(context.textRanges) :
       /\ context.textRanges[r].formatting.bold
       /\ context.textRanges[r].formatting.link = "u"
       /\ Len(CharacterStylesOver(context.textRanges[r])) = 1
       /\ Len(LinkStylesOver(context.textRanges[r])) = 1

\* a returned batch with an inline-code leaf and a link-only span
C17_WitnessCodeAndLink ==
  /\ pc = "done"
  /\ TokensOfType("code_inline") # {}
  /\ \E r \in 1..Len(context.textRanges) :
       context.textRanges[r].formatting = [NoFormatting EXCEPT !.link = "u"]

\* ------------------------------------------------------------------------
\* Code blocks
\* ------------------------------------------------------------------------
\* the lines of a text: the runs between its line breaks
RECURSIVE CodeLines(_, _)
CodeLines(text, line) ==
  IF text = <<>> THEN (IF line = <<>> THEN <<>> ELSE <<line>>)
  ELSE IF Head(text) = NL THEN <<line>> \o CodeLines(Tail(text), <<>>)
       ELSE CodeLines(Tail(text), Append(line, Head(text)))

IsInfix(s, t) ==
  \E k \in 0..(Len(t) - Len(s)) : SubSeq(t, k + 1, k + Len(s)) = s

\* the index of the k-th code block token
Fence(k) == NthOfType("fence", k, 1)

\* the text-style operations with the monospace font inside the text span of
\* the code block range
MonospaceOpsIn(range) ==
  {k \in 1..Len(TextStyles) :
     /\ TextStyles[k].fontFamily = CODE_FONT_FAMILY
     /\ range.textStartIndex <= TextStyles[k].startIndex
     /\ TextStyles[k].endIndex <= range.textEndIndex}

\* every line of the code appears in an insert-text operation
LinesInserted(content) ==
  \A l \in 1..Len(CodeLines(content, <<>>)) :
    \E i \in 1..Len(result) :
      /\ result[i].type = "insertText"
      /\ IsInfix(CodeLines(content, <<>>)[l], result[i].text)

FenceStep ==
  /\ Len(tokens') = Len(tokens) + 1
  /\ Last(tokens').type = "fence"

\* the content with one trailing line break stripped
Stripped(content) ==
  IF content # <<>> /\ content[Len(content)] = NL
  THEN SubSeq(content, 1, Len(content) - 1) ELSE content

\* the insertions of the step from the insert-table operation on
FromTable ==
  LET j == CHOOSE k \in 1..Len(Emitted) : Emitted[k].type = "insertTable"
  IN SubSeq(Emitted, j, Len(Emitted))

IsCellStyle(req) == req.type = "updateTableCellStyle"

CellStyles == SelectSeq(result, IsCellStyle)

\* the k-th table-cell style operation addresses the table of the k-th code
\* block, one position after the offset of its insert-table operation
CellStylesAddressTables ==
  pc = "done" =>
    /\ Len(CellStyles) = Len(context.codeBlockRanges)
    /\ \A k \in 1..Len(CellStyles) :
         /\ CellStyles[k].startIndex
              = context.codeBlockRanges[k].tableStartIndex + 1
         /\ \E i \in 1..Len(result) :
              /\ result[i].type = "insertTable"
              /\ result[i].index + 1 = CellStyles[k].startIndex

\* C19: a code block token with stripped content of length L emits an
\* insert-table operation at T (the cursor after the preceding-line-break
\* step), then, if L > 0, an insert-text operation at T + 4 with the stripped
\* content, records the Code Block Range with structure start T and text span
\* [T + 4, T + 4 + L), and then inserts one line break at T + 6 + L, which
\* leaves the cursor at T + 6 + L + 1; the table-cell style operation
\* addresses the table at T + 1.
C19_CodeBlockArithmetic ==
  /\ []CellStylesAddressTables
  /\ [][FenceStep =>
          LET text == Stripped(Last(tokens').content)
              L == Len(text)
              T == FromTable[1].index
              tab == context.tabId
          IN /\ \E k \in 1..Len(Emitted) : Emitted[k].type = "insertTable"
             /\ T \in {context.currentIndex, context.currentIndex + 1}
             /\ FromTable =
                  <<InsertTableRequest(T, tab)>>
                  \o (IF L > 0 THEN <<InsertTextRequest(T + 4, text, tab)>>
                      ELSE <<>>)
                  \o <<InsertTextRequest(T + 6 + L, <<NL>>, tab)>>
             /\ context'.codeBlockRanges = Append(context.codeBlockRanges,
                  [tableStartIndex |-> T, textStartIndex |-> T + 4,
                   textEndIndex |-> T + 4 + L])
             /\ context'.currentIndex = T + 6 + L + 1]_vars

\* a code block with text has just been processed after a line break had to
\* be inserted before its table
C19_Witness ==
  /\ tokens # <<>>
  /\ Last(tokens).type = "fence"
  /\ Last(tokens).content # <<>>
  /\ Last(context.codeBlockRanges).tableStartIndex = Last(tokens).at + 1
  /\ context.currentIndex
       = Last(tokens).at + 1 + 6 + (Len(Last(tokens).content) - 1) + 1

\* the insertion before the i-th one, if there is one, is an insert-text
\* operation whose text ends with a line break
LineBreakBefore(reqs, i) ==
  i > 1 =>
    /\ reqs[i - 1].type = "insertText"
    /\ reqs[i - 1].text # <<>>
    /\ reqs[i - 1].text[Len(reqs[i - 1].text)] = NL

\* C20: whenever an insert-table operation has an insertion before it, that
\* insertion ends with a line break, wherever the code block stands in the
\* stream (first token, after a paragraph, after a heading, inside a list
\* item); the code block step adds the line break itself, at the cursor, when
\* the last insertion does not end with one.
C20_LineBreakBeforeCodeBlock ==
  /\ [](\A i \in 1..Len(context.insertRequests) :
          context.insertRequests[i].type = "insertTable" =>
            LineBreakBefore(context.insertRequests, i))
  /\ [][FenceStep =>
          LET n == Len(context.insertRequests)
              broken == LineBreakBefore(context.insertRequests, n + 1)
          IN Emitted[1] = IF broken
                          THEN InsertTableRequest(context.currentIndex,
                                                  context.tabId)
                          ELSE InsertTextRequest(context.currentIndex, <<NL>>,
                                                 context.tabId)]_vars

\* a code block has just been processed straight after the indentation tab of
\* a nested list item, and a line break stands between the tab and the table
C20_Witness ==
  /\ Len(tokens) >= 2
  /\ Last(tokens).type = "fence"
  /\ tokens[Len(tokens) - 1].type = "list_item_open"
  /\ \E i \in 3..Len(context.insertRequests) :
       /\ context.insertRequests[i].type = "insertTable"
       /\ context.insertRequests[i - 1].text = <<NL>>
       /\ context.insertRequests[i - 2].text = <<TAB>>

\* a code block has just been processed as the first token of the stream
C20_WitnessFirstToken ==
  /\ Len(tokens) = 1
  /\ Last(tokens).type = "fence"
  /\ context.insertRequests[1].type = "insertTable"

\* the run has ended by throwing a conversion error: no batch is returned
EndedInError ==
  /\ pc = "error"
  /\ result = <<>>
  /\ thrown.kind = "MarkdownConversionError"

\* the last token is a list_item_open that was taken with an empty list stack
OrphanItemTaken ==
  /\ tokens # <<>>
  /\ Last(tokens).type = "list_item_open"
  /\ context.listStack = <<>>

\* the message of the conversion error that reports the failure `error`
Wrapped(error) ==
  "Failed to convert markdown: "
    \o (IF error.kind = "Error" THEN error.message ELSE "Unknown error")

\* C21: a list_item_open processed while the list stack is empty ends the run
\* with the conversion error of handleListItemOpen and without any returned
\* batch, whatever had been inserted before; every other failure of the pass
\* or of the finalization ends the run with a conversion error whose message
\* holds the message of the failure, again without a batch; a run that has
\* thrown takes no further step, and a run that returns has thrown nothing.
C21_OrphanListItemError ==
  /\ [](OrphanItemTaken =>
          EndedInError /\ thrown.message = OrphanItemMessage)
  /\ [](pc = "error" =>
          /\ EndedInError
          /\ IF OrphanItemTaken THEN thrown.message = OrphanItemMessage
             ELSE \E error \in Failures : thrown.message = Wrapped(error))
  /\ [](pc # "error" => thrown = NoError)
  /\ [](pc = "pass" => result = <<>>)
  /\ [][pc # "error"]_vars

\* an orphan list item has ended a run that had already made insertions
C21_Witness ==
  /\ EndedInError
  /\ OrphanItemTaken
  /\ thrown.message = OrphanItemMessage
  /\ Len(context.insertRequests) >= 2

\* another failure has ended a run that had already made insertions; the
\* error carries the message of the failure
C21_WitnessWrapped ==
  /\ EndedInError
  /\ thrown.message = "Failed to convert markdown: boom"
  /\ context.insertRequests # <<>>

\* the context a call has when it runs alone and has processed toks
ContextAlone(run, toks) ==
  processTokens(toks, InitialContext(run.input.startIndex, run.input.tabId,
                                     run.input.firstHeadingAsTitle))

\* the call is where it would be had it run alone on the tokens it has taken
Isolated(run) ==
  /\ run.pc = "done" =>
       run.result = convertMarkdownToRequests(run.input, run.tokens)
  /\ run.pc = "pass" => run.context = ContextAlone(run, run.tokens)
  /\ run.pc = "error" =>
       /\ run.result = <<>>
       /\ IF run.thrown.message = OrphanItemMessage
          THEN /\ run.context = ContextAlone(run, Front(run.tokens))
               /\ run.context.listStack = <<>>
          ELSE run.context = ContextAlone(run, run.tokens)

SortedItems == validListItems(context)

\* The running bullet range of the merge: the k-th sorted item starts a new
\* range when it is the first item, when its kind differs from the kind of
\* the item before it, or when it starts more than one offset unit after the
\* end of the running range; the running range ends at the largest end of
\* the items merged into it so far.
RECURSIVE StartsRange(_, _), RunningEnd(_, _)
StartsRange(v, k) ==
  IF k = 1 THEN TRUE
  ELSE \/ v[k].bulletPreset # v[k - 1].bulletPreset
       \/ v[k].startIndex > RunningEnd(v, k - 1) + 1

RunningEnd(v, k) ==
  IF StartsRange(v, k) THEN v[k].endIndex
  ELSE IF RunningEnd(v, k - 1) > v[k].endIndex THEN RunningEnd(v, k - 1)
       ELSE v[k].endIndex

\* the last item of the range that the k-th sorted item starts
LastOfRange(v, k) ==
  CHOOSE m \in k..Len(v) :
    /\ \A j \in (k + 1)..m : ~StartsRange(v, j)
    /\ m < Len(v) => StartsRange(v, m + 1)

\* the bullet range that the k-th sorted item starts
RangeFrom(v, k) ==
  [startIndex |-> v[k].startIndex,
   endIndex |-> RunningEnd(v, LastOfRange(v, k)),
   bulletPreset |-> v[k].bulletPreset]

IsRange(req, range) ==
  /\ req.startIndex = range.startIndex
  /\ req.endIndex = range.endIndex
  /\ req.bulletPreset = range.bulletPreset

\* the bullet-creation operations of the batch are the running ranges, each
\* as often as it arises
BulletsAreRunningRanges ==
  LET v == SortedItems
      bullets == Bullets
      firsts == {k \in 1..Len(v) : StartsRange(v, k)}
  IN /\ Len(bullets) = Cardinality(firsts)
     /\ \A k \in firsts :
          Cardinality({i \in 1..Len(bullets) : IsRange(bullets[i], RangeFrom(v, k))})
            = Cardinality({j \in firsts : RangeFrom(v, j) = RangeFrom(v, k)})

\* every offset of a bullet range lies in the span of a valid Pending List
\* Item of the range's kind: nothing but list items is inside a bullet range
BulletsHoldItemsOnly ==
  LET v == SortedItems
      bullets == Bullets
  IN \A i \in 1..Len(bullets) :
       \A offset \in bullets[i].startIndex..bullets[i].endIndex :
         \E k \in 1..Len(v) :
           /\ v[k].bulletPreset = bullets[i].bulletPreset
           /\ v[k].startIndex <= offset
           /\ offset <= v[k].endIndex

\* the k-th sorted item differs in kind from the item before it or starts
\* more than one offset unit after that item's end
BreaksAfterPreviousItem(v, k) ==
  IF k = 1 THEN TRUE
  ELSE \/ v[k].bulletPreset # v[k - 1].bulletPreset
       \/ v[k].startIndex > v[k - 1].endIndex + 1

C23_WitnessTwoLists ==
  /\ pc = "done"
  /\ Len(SortedItems) = 2
  /\ SortedItems[1].bulletPreset = SortedItems[2].bulletPreset
  /\ Len(Bullets) = 2
  /\ Len(context.paragraphRanges) = 1
  /\ context.paragraphRanges[1].startIndex > SortedItems[1].endIndex
  /\ context.paragraphRanges[1].endIndex < SortedItems[2].startIndex

\* C24: the returned batch holds exactly one bullet-creation operation for
\* each merged range, and the bullet-creation operations stand in descending
\* start-offset order: an earlier one never starts before a later one, also
\* for nested lists and lists of mixed kinds.
C24_BulletOrder ==
  pc = "done" =>
    LET v == SortedItems
        bullets == Bullets
        firsts == {k \in 1..Len(v) : StartsRange(v, k)}
    IN /\ Len(bullets) = Cardinality(firsts)
       /\ \A k \in firsts :
            \E i \in 1..Len(bullets) : IsRange(bullets[i], RangeFrom(v, k))
       /\ \A i, j \in 1..Len(bullets) :
            i < j => bullets[i].startIndex >= bullets[j].startIndex

\* a batch was returned with three bullet-creation operations of alternating
\* kinds, for an outer list with a nested list of the other kind: they stand
\* in strictly descending start order
C24_Witness ==
  /\ pc = "done"
  /\ Len(Bullets) = 3
  /\ Bullets[1].startIndex > Bullets[2].startIndex
  /\ Bullets[2].startIndex > Bullets[3].startIndex
  /\ Bullets[1].bulletPreset # Bullets[2].bulletPreset
  /\ Bullets[2].bulletPreset # Bullets[3].bulletPreset
  /\ \E i \in 1..Len(context.pendingListItems) :
       context.pendingListItems[i].nestingLevel = 1

\* the attribute a close token removes, "" for every other token
ClosedAttribute(type) ==
  CASE type = "strong_close" -> "bold"
    [] type = "em_close" -> "italic"
    [] type = "s_close" -> "strikethrough"
    [] type = "link_close" -> "link"
    [] OTHER -> ""

\* the stack entry carries the attribute
Carries(state, attribute) ==
  CASE attribute = "bold" -> state.bold
    [] attribute = "italic" -> state.italic
    [] attribute = "strikethrough" -> state.strikethrough
    [] attribute = "link" -> state.link # NoLink
    [] OTHER -> FALSE

\* stack `after` is stack `before` without its i-th entry
Without(before, i, after) ==
  /\ Len(after) = Len(before) - 1
  /\ \A j \in 1..Len(after) :
       after[j] = IF j < i THEN before[j] ELSE before[j + 1]

\* a step that has processed a close token of an inline attribute
CloseStep ==
  /\ Len(tokens') = Len(tokens) + 1
  /\ ClosedAttribute(Last(tokens').type) # ""

\* C25: a close token for bold, italic, strikethrough or link removes from
\* the formatting stack the most recently pushed entry that carries that
\* attribute and nothing else, keeping the other entries in their order also
\* when the removed entry is not the newest; when no entry carries the
\* attribute the stack stays as it is; the rest of the context is untouched.
C25_RemovalByKind ==
  [][CloseStep =>
       LET attribute == ClosedAttribute(Last(tokens').type)
           before == context.formattingStack
           after == context'.formattingStack
           carriers == {i \in 1..Len(before) : Carries(before[i], attribute)}
       IN /\ context' = [context EXCEPT !.formattingStack = after]
          /\ IF carriers = {} THEN after = before
             ELSE \E i \in carriers :
                    /\ \A j \in carriers : j <= i
                    /\ Without(before, i, after)]_vars

\* a bold close has just removed the bold entry from under a newer italic
\* entry, which stays
C25_Witness ==
  /\ Len(tokens) >= 3
  /\ tokens[Len(tokens) - 2].type = "strong_open"
  /\ tokens[Len(tokens) - 1].type = "em_open"
  /\ tokens[Len(tokens)].type = "strong_close"
  /\ context.formattingStack = <<[NoFormatting EXCEPT !.italic = TRUE]>>

\* a link close has just been processed for a link without href, which had
\* pushed nothing: the outer bold entry is still on the stack
C25_WitnessNothingRemoved ==
  /\ Len(tokens) >= 3
  /\ tokens[Len(tokens) - 2].type = "strong_open"
  /\ tokens[Len(tokens) - 1].type = "link_open"
  /\ tokens[Len(tokens) - 1].href = ""
  /\ tokens[Len(tokens)].type = "link_close"
  /\ context.formattingStack = <<[NoFormatting EXCEPT !.bold = TRUE]>>

\* the step processes a paragraph-close token
ParagraphCloseStep ==
  /\ Len(tokens') = Len(tokens) + 1
  /\ Last(tokens').type = "paragraph_close"

\* the cursor when the paragraph that is open was opened
ParagraphOpenedAt ==
  LET opens == TokensOfType("paragraph_open")
  IN tokens[CHOOSE i \in opens : \A j \in opens : j <= i].at

\* the last insertion made so far is text that ends with a line break
EndsWithLineBreak(reqs) ==
  /\ reqs # <<>>
  /\ Last(reqs).type = "insertText"
  /\ Last(reqs).text # <<>>
  /\ Last(reqs).text[Len(Last(reqs).text)] = NL

\* the open paragraph has inserted text and that text ends with a line break
ParagraphEndsWithLineBreak ==
  /\ EndsWithLineBreak(context.insertRequests)
  /\ Last(context.insertRequests).index >= ParagraphOpenedAt

\* the step sets the end of the innermost open list item, if there is one, to
\* the offset before the cursor when that offset is greater than the item's
\* start, and touches no other item
ItemEndsBeforeLineBreak ==
  LET items == context.pendingListItems
      end == context'.currentIndex - 1
  IN /\ context'.openListItemStack = context.openListItemStack
     /\ context'.pendingListItems =
          IF context.openListItemStack = <<>> THEN items
          ELSE LET cur == Last(context.openListItemStack)
               IN IF end > items[cur].startIndex
                  THEN [items EXCEPT ![cur].endIndex = end]
                  ELSE items

\* C26 as stated: a paragraph close inserts exactly one line break when the
\* text the paragraph has inserted does not end with one, and none otherwise,
\* so that the paragraph's inserted text ends with a line break; the open
\* item's end becomes cursor - 1 when that is greater than its start.
C26_ParagraphTextEndsWithLineBreak ==
  [][ParagraphCloseStep =>
       /\ Emitted = IF ParagraphEndsWithLineBreak THEN <<>>
                    ELSE <<InsertTextRequest(context.currentIndex, <<NL>>,
                                             context.tabId)>>
       /\ ItemEndsBeforeLineBreak]_vars

\* C26: after every paragraph-close token the last insertion of the run ends
\* with a line break: the step inserts exactly one line break, at the cursor,
\* when the last insertion made so far (by the paragraph or by what came
\* before it) does not end with one, and nothing otherwise, so a paragraph
\* that inserted nothing after content that ends with a line break adds no
\* line break; the innermost open list item's end becomes cursor - 1 when
\* that offset is greater than the item's start, and is left alone otherwise.
C26_ParagraphClose ==
  [][ParagraphCloseStep =>
       /\ Emitted = IF EndsWithLineBreak(context.insertRequests) THEN <<>>
                    ELSE <<InsertTextRequest(context.currentIndex, <<NL>>,
                                             context.tabId)>>
       /\ EndsWithLineBreak(context'.insertRequests)
       /\ context'.currentIndex = context.currentIndex + Len(Emitted)
       /\ ItemEndsBeforeLineBreak]_vars

\* a paragraph that inserted nothing has just closed after a heading: the
\* last insertion is the heading's line break and the paragraph added none
C26_Witness ==
  /\ Len(tokens) >= 3
  /\ tokens[Len(tokens) - 2].type = "heading_close"
  /\ tokens[Len(tokens) - 1].type = "paragraph_open"
  /\ tokens[Len(tokens)].type = "paragraph_close"
  /\ tokens[Len(tokens)].at = context.currentIndex
  /\ Len(context.insertRequests) >= 2

\* a paragraph with text has just closed inside a nested list item: the line
\* break was inserted and the item ends just before it
C26_WitnessInItem ==
  /\ Len(tokens) >= 2
  /\ tokens[Len(tokens)].type = "paragraph_close"
  /\ tokens[Len(tokens) - 1].type = "text"
  /\ context.openListItemStack # <<>>
  /\ context.pendingListItems[Last(context.openListItemStack)].nestingLevel = 1
  /\ context.pendingListItems[Last(context.openListItemStack)].endIndex
       = context.currentIndex - 1
  /\ Last(context.insertRequests).text = <<NL>>
  /\ Last(context.insertRequests).index = context.currentIndex - 1

\* token i stands outside every list
OutsideLists(i) == CountTypes(i, ListOpens) = CountTypes(i, ListCloses)

\* the paragraph-close tokens outside every list, in stream order
RECURSIVE TopLevelCloses(_)
TopLevelCloses(n) ==
  IF n = 0 THEN <<>>
  ELSE IF tokens[n].type = "paragraph_close" /\ OutsideLists(n)
       THEN Append(TopLevelCloses(n - 1), n)
       ELSE TopLevelCloses(n - 1)

\* the paragraph-open token that the paragraph-close token i closes
OpenOf(i) ==
  CHOOSE j \in 1..(i - 1) :
    /\ tokens[j].type = "paragraph_open"
    /\ \A k \in (j + 1)..(i - 1) : tokens[k].type # "paragraph_open"

\* the cursor after token i was processed
CursorAfter(i) ==
  IF i < Len(tokens) THEN tokens[i + 1].at ELSE context.currentIndex

\* the spacing paragraph spans are those of the paragraphs outside every
\* list, one each and in stream order, from the cursor at the paragraph's
\* open to the cursor after its close
SpansOfTopLevelParagraphs ==
  LET closes == TopLevelCloses(Len(tokens))
      spans == context.normalParagraphRanges
  IN /\ Len(spans) = Len(closes)
     /\ \A k \in 1..Len(spans) :
          /\ spans[k].startIndex = tokens[OpenOf(closes[k])].at
          /\ spans[k].endIndex = CursorAfter(closes[k])

\* C27: a spacing paragraph span is recorded at a paragraph close exactly
\* when the paragraph stands outside every list; it runs from the cursor at
\* the paragraph's open to the cursor after the close, that is after the
\* terminating line break; a paragraph inside a list records none, also after
\* a heading or an earlier paragraph; no other token records or changes one.
C27_NonListParagraphSpans ==
  /\ [](pc = "pass" => SpansOfTopLevelParagraphs)
  /\ [][ParagraphCloseStep =>
          context'.normalParagraphRanges =
            IF ListDepth = 0
            THEN Append(context.normalParagraphRanges,
                        [startIndex |-> ParagraphOpenedAt,
                         endIndex |-> context'.currentIndex])
            ELSE context.normalParagraphRanges]_vars
  /\ [][~ParagraphCloseStep =>
          context'.normalParagraphRanges = context.normalParagraphRanges]_vars

\* a paragraph with text has just closed inside a list item, after a heading
\* and an earlier paragraph outside the list: the only span is the earlier
\* paragraph's, which ends after its line break
C27_Witness ==
  /\ Len(tokens) >= 2
  /\ tokens[Len(tokens)].type = "paragraph_close"
  /\ tokens[Len(tokens) - 1].type = "text"
  /\ ListDepth >= 1
  /\ TokensOfType("heading_close") # {}
  /\ Len(context.normalParagraphRanges) = 1
  /\ context.normalParagraphRanges[1].endIndex
       > context.normalParagraphRanges[1].startIndex + 1
  /\ context.normalParagraphRanges[1].endIndex < context.currentIndex

\* the step processes a list-close token
ListCloseStep ==
  /\ Len(tokens') = Len(tokens) + 1
  /\ Last(tokens').type \in ListCloses

\* the token that opened the outermost list that is open
OutermostListOpen ==
  LET opens == {i \in 1..Len(tokens) :
                  /\ tokens[i].type \in ListOpens
                  /\ CountTypes(i - 1, ListOpens) = CountTypes(i - 1, ListCloses)}
  IN CHOOSE i \in opens : \A j \in opens : j <= i

\* the Pending List Items with a non-empty span that were opened inside the
\* outermost open list, nested ones included, by their place in the buffer
ValidItemsOfOutermostList ==
  LET before == CountTypes(OutermostListOpen, {"list_item_open"})
      items == context.pendingListItems
  IN {k \in (before + 1)..Len(items) :
        /\ items[k].endIndex # Undefined
        /\ items[k].endIndex > items[k].startIndex}

\* C28 as stated: when the outermost list closes, a List Spacing Range is
\* recorded only for an item of the list just closed, namely its last item
\* with a non-empty span, and the range reaches the end of the last
\* paragraph of that list; when an inner list closes nothing is recorded.
C28_ListTrailingSpacing ==
  [][ListCloseStep =>
       LET items == context.pendingListItems
           valid == ValidItemsOfOutermostList
           ranges == context.listSpacingRanges
       IN IF ListDepth > 1 \/ valid = {}
          THEN context'.listSpacingRanges = ranges
          ELSE LET last == CHOOSE k \in valid : \A j \in valid : j <= k
               IN /\ context'.listSpacingRanges =
                       Append(ranges, [startIndex |-> items[last].startIndex,
                                       endIndex |-> items[last].endIndex])
                  /\ \A j \in valid : items[j].endIndex <= items[last].endIndex]_vars

\* an outermost list has just closed whose only item holds a nested list and
\* then a paragraph: the recorded range is the nested item's span, which
\* ends before the outer item's last paragraph
C28_Witness ==
  /\ tokens # <<>>
  /\ Last(tokens).type \in ListCloses
  /\ context.listStack = <<>>
  /\ Len(context.pendingListItems) = 2
  /\ Len(context.listSpacingRanges) = 1
  /\ context.pendingListItems[2].nestingLevel = 1
  /\ context.listSpacingRanges[1].endIndex = context.pendingListItems[2].endIndex
  /\ context.pendingListItems[1].endIndex > context.pendingListItems[2].endIndex

\* an outermost list without any item of non-empty span has just closed
\* after an earlier list: the range recorded is again the span of the
\* earlier list's item
C28_WitnessEarlierList ==
  /\ tokens # <<>>
  /\ Last(tokens).type \in ListCloses
  /\ context.listStack = <<>>
  /\ Len(context.pendingListItems) = 2
  /\ context.pendingListItems[2].endIndex = Undefined
  /\ Len(context.listSpacingRanges) = 2
  /\ context.listSpacingRanges[1] = context.listSpacingRanges[2]

\* the step processes a list-item-close token
ItemCloseStep ==
  /\ Len(tokens') = Len(tokens) + 1
  /\ Last(tokens').type = "list_item_close"

\* every Pending List Item whose end is set has start < end < cursor
ItemSpansInsideText ==
  \A k \in 1..Len(context.pendingListItems) :
    LET item == context.pendingListItems[k]
    IN item.endIndex # Undefined =>
         /\ item.startIndex < item.endIndex
         /\ item.endIndex < context.currentIndex

\* C29: a list-item-close token pops exactly one entry of the open-item
\* stack; the end of the item it closes is set only when it was not set
\* before, to the cursor, or to cursor - 1 when the last insertion ends with a
\* line break, and only if that is greater than the item's start; no other
\* item changes; one line break is inserted unless the last insertion ends
\* with one, so afterwards it does.  At every token boundary every Pending
\* List Item whose end is set has start < end < cursor.
C29_ItemCloseAndSpans ==
  /\ [](pc = "pass" => ItemSpansInsideText)
  /\ [][ItemCloseStep =>
          LET items == context.pendingListItems
              k == Last(context.openListItemStack)
              broken == EndsWithLineBreak(context.insertRequests)
              computed == IF broken THEN context.currentIndex - 1
                          ELSE context.currentIndex
          IN /\ context.openListItemStack # <<>>
             /\ context'.openListItemStack = Front(context.openListItemStack)
             /\ context'.pendingListItems =
                  IF items[k].endIndex = Undefined /\ computed > items[k].startIndex
                  THEN [items EXCEPT ![k].endIndex = computed]
                  ELSE items
             /\ Emitted = IF broken THEN <<>>
                          ELSE <<InsertTextRequest(context.currentIndex, <<NL>>,
                                                   context.tabId)>>
             /\ EndsWithLineBreak(context'.insertRequests)]_vars

\* an item has just closed whose end its paragraph had set before its nested
\* list was processed: the end stays where the paragraph put it, well before
\* the cursor
C29_Witness ==
  /\ tokens # <<>>
  /\ Last(tokens).type = "list_item_close"
  /\ context.openListItemStack = <<>>
  /\ Len(context.pendingListItems) = 2
  /\ context.pendingListItems[1].endIndex # Undefined
  /\ context.pendingListItems[2].endIndex # Undefined
  /\ context.pendingListItems[1].endIndex < context.pendingListItems[2].startIndex
  /\ context.pendingListItems[2].endIndex = context.currentIndex - 1

\* a nested item without content has just closed: its end is the cursor at
\* the close, after the indentation, and the line break follows it
C29_WitnessInferred ==
  /\ Len(tokens) >= 2
  /\ Last(tokens).type = "list_item_close"
  /\ tokens[Len(tokens) - 1].type = "list_item_open"
  /\ Last(context.pendingListItems).nestingLevel = 1
  /\ Last(context.pendingListItems).endIndex = Last(tokens).at
  /\ Last(context.insertRequests).text = <<NL>>
  /\ Last(context.insertRequests).index = Last(tokens).at

\* the step processes a text leaf with content
TextLeafStep ==
  /\ Len(tokens') = Len(tokens) + 1
  /\ Last(tokens').type = "text"
  /\ Last(tokens').content # <<>>

\* the innermost open list item has had a leaf with content
MarkerExamined == InsideListItem /\ LeafSeen(Len(tokens), 0)

\* C30: the marker-consumed flag of the innermost open list item is set
\* exactly when a leaf with content has been processed while that item was
\* the innermost open one; the text leaf that sets it is the only one checked
\* for a task-list marker: a flag that is set stays set and the item's bullet
\* kind never changes afterwards; a text leaf processed when the flag is set,
\* or while no list item is open, is inserted as it is, with its marker if it
\* has one, and changes no Pending List Item.
C30_MarkerExaminedOnce ==
  /\ [](pc = "pass" /\ InsideListItem =>
          (context.pendingListItems[Last(context.openListItemStack)]
                 .taskPrefixProcessed
             <=> LeafSeen(Len(tokens), 0)))
  /\ [][\A k \in 1..Len(context.pendingListItems) :
          context.pendingListItems[k].taskPrefixProcessed =>
            /\ context'.pendingListItems[k].taskPrefixProcessed
            /\ context'.pendingListItems[k].bulletPreset
                 = context.pendingListItems[k].bulletPreset]_vars
  /\ [][TextLeafStep /\ (MarkerExamined \/ ~InsideListItem) =>
          /\ Emitted = <<InsertTextRequest(context.currentIndex,
                                           Last(tokens').content, context.tabId)>>
          /\ context'.pendingListItems = context.pendingListItems]_vars
  /\ [][TextLeafStep /\ InsideListItem /\ ~MarkerExamined =>
          context'.pendingListItems[Last(context.openListItemStack)]
            .taskPrefixProcessed]_vars

\* the second text leaf of a list item starts with a checked task marker and
\* has just been inserted with it; the item keeps the kind of its list
C30_Witness ==
  /\ tokens # <<>>
  /\ Last(tokens).type = "text"
  /\ Last(tokens).content = TaskDone
  /\ context.openListItemStack # <<>>
  /\ Last(context.insertRequests).text = TaskDone
  /\ context.pendingListItems[Last(context.openListItemStack)].bulletPreset
       # "BULLET_CHECKBOX"
  /\ context.pendingListItems[Last(context.openListItemStack)].taskPrefixProcessed

\* a text leaf that is nothing but a task marker has just been inserted as
\* it is, outside every list
C30_WitnessOutsideList ==
  /\ tokens # <<>>
  /\ Last(tokens).type = "text"
  /\ Last(tokens).content = TaskOnly
  /\ context.openListItemStack = <<>>
  /\ Last(context.insertRequests).text = TaskOnly

\* the operations of the batch that address a range of offsets
AddressesRange(req) ==
  req.type \in {"updateTextStyle", "updateParagraphStyle", "createParagraphBullets"}

RangedOperations == SelectSeq(result, AddressesRange)

\* C31 as stated: every style or structure operation of the returned batch
\* that addresses a range has start < end, and the range lies between the
\* start offset of the call and the final cursor, also for a heading without
\* text, a paragraph that inserts nothing and an empty list item.
C31_RangesNonEmpty ==
  pc = "done" =>
    \A i \in 1..Len(RangedOperations) :
      /\ RangedOperations[i].startIndex < RangedOperations[i].endIndex
      /\ input.startIndex <= RangedOperations[i].startIndex
      /\ RangedOperations[i].endIndex <= context.currentIndex

\* a batch was returned for a heading with text followed by a paragraph that
\* inserted nothing: its spacing operation addresses an empty range at the
\* final cursor
C31_Witness ==
  /\ pc = "done"
  /\ Len(tokens) = 5
  /\ tokens[1].type = "heading_open"
  /\ tokens[2].type = "text"
  /\ tokens[3].type = "heading_close"
  /\ tokens[4].type = "paragraph_open"
  /\ tokens[5].type = "paragraph_close"
  /\ \E i \in 1..Len(result) :
       /\ result[i].type = "updateParagraphStyle"
       /\ result[i].fields = "spaceBelow"
       /\ result[i].startIndex = context.currentIndex
       /\ result[i].endIndex = context.currentIndex

\* a batch was returned for a heading without text: its named-style
\* operation addresses an empty range at the start offset
C31_WitnessEmptyHeading ==
  /\ pc = "done"
  /\ Len(tokens) = 2
  /\ tokens[1].type = "heading_open"
  /\ tokens[2].type = "heading_close"
  /\ \E i \in 1..Len(result) :
       /\ result[i].type = "updateParagraphStyle"
       /\ result[i].namedStyleType # NoStyle
       /\ result[i].startIndex = input.startIndex
       /\ result[i].endIndex = input.startIndex

\* two bullet-creation operations cover a common offset
Overlap(a, c) == a.startIndex < c.endIndex /\ c.startIndex < a.endIndex

\* C32 as stated: the ranges of the bullet-creation operations of the
\* returned batch are pairwise disjoint, no offset is covered by two of them,
\* also for an item that holds a nested list of another kind and then a
\* further paragraph.
C32_BulletRangesDisjoint ==
  pc = "done" =>
    LET bullets == Bullets
    IN \A i, j \in 1..Len(bullets) : i # j => ~Overlap(bullets[i], bullets[j])

\* a batch was returned for an item that holds a nested list of another kind,
\* whose item has text, and then a paragraph with text: the outer item's
\* bullet range runs past the nested item's range, which lies inside it
C32_Witness ==
  /\ pc = "done"
  /\ Len(context.pendingListItems) = 2
  /\ context.pendingListItems[1].nestingLevel = 0
  /\ context.pendingListItems[2].nestingLevel = 1
  /\ context.pendingListItems[1].bulletPreset
       # context.pendingListItems[2].bulletPreset
  /\ Len(tokens) = 14
  /\ tokens[3].type = "ordered_list_open"
  /\ tokens[6].type = "text"
  /\ tokens[9].type = "ordered_list_close"
  /\ tokens[Len(tokens) - 3].type = "text"
  /\ tokens[Len(tokens) - 2].type = "paragraph_close"
  /\ tokens[Len(tokens) - 1].type = "list_item_close"
  /\ Len(Bullets) = 2
  /\ Overlap(Bullets[1], Bullets[2])
  /\ \E i, j \in 1..2 :
       /\ Bullets[i].startIndex <= Bullets[j].startIndex
       /\ Bullets[j].endIndex < Bullets[i].endIndex

\* the pass over the token stream has ended and the batch was returned
PassEnded == pc = "done" /\ ~isBlank(input.markdown)

\* nothing is left open in the conversion state
Balanced(c) ==
  /\ c.formattingStack = <<>>
  /\ c.listStack = <<>>
  /\ c.openListItemStack = <<>>
  /\ c.currentParagraphStart = Undefined
  /\ c.currentHeadingLevel = Undefined

\* processToken takes an inline-code leaf
CodeLeafStep ==
  /\ Len(tokens') = Len(tokens) + 1
  /\ Last(tokens').type = "code_inline"

\* C33: for every well-nested token stream, after the last token the
\* formatting stack, the list stack and the open-item stack are empty and no
\* paragraph start or heading level is pending; and processing an
\* inline-code leaf leaves the formatting stack exactly as it was before.
C33_BalancedAtEnd ==
  /\ [](PassEnded => Balanced(context))
  /\ [][CodeLeafStep => context'.formattingStack = context.formattingStack]_vars

\* a pass has ended in which a heading, a list, an item, a paragraph and an
\* inline-code leaf were all processed
C33_Witness ==
  /\ PassEnded
  /\ TokensOfType("heading_open") # {}
  /\ CountTypes(Len(tokens), ListOpens) >= 1
  /\ TokensOfType("list_item_open") # {}
  /\ TokensOfType("paragraph_open") # {}
  /\ TokensOfType("code_inline") # {}

\* an inline-code leaf has just been processed inside a link: the stack holds
\* the entry of the link, as before the leaf, and no code entry
C33_WitnessInsideLink ==
  /\ pc = "pass"
  /\ tokens # <<>>
  /\ Last(tokens).type = "code_inline"
  /\ Len(context.formattingStack) = 1
  /\ context.formattingStack[1].link # NoLink
  /\ ~context.formattingStack[1].code

\* a pass has ended for two lists nested in each other with an item each
C33_WitnessNestedLists ==
  /\ PassEnded
  /\ \E i, j \in TokensOfType("list_item_open") :
       /\ i < j
       /\ CountTypes(j, ListOpens) = 2
       /\ CountTypes(j, ListCloses) = 0
       /\ CountTypes(j, {"list_item_close"}) = 0

====
